---- MODULE Spec2Model ----
(***************************************************************************)
(* Model of the Snowflake SQL API v2 client (app/snowflake_client.py), the *)
(* key-pair JWT cache (app/security.py), the /health handler, the response *)
(* cache and the rate limit of the gateway (app/main.py, app/utils.py).    *)
(*                                                                         *)
(* The token clock `now` counts minutes, the gateway clock `clock` counts  *)
(* seconds.  A token string is determined by its signed payload (RS256 is  *)
(* deterministic for a fixed key), so a token is represented by its        *)
(* (iat, exp) pair.                                                        *)
(*                                                                         *)
(* Spec      one execution of execute_query_stream and its callers         *)
(* SpecJwt   get_snowflake_jwt on a clock of single minutes                *)
(* SpecPure  process_rows, the request body and the filter translation     *)
(*           of get_data_view over every small input                       *)
(* SpecCache fetch_table_data and the TTL cache                            *)
(* SpecLimit the 50/minute limit of /v1/data/{view_id}                     *)
(* SpecRace  concurrent executions inside get_snowflake_jwt                *)
(* SpecAuth  API keys and the admin endpoint over the worker processes     *)
(* SpecClient executions that share the HTTP client, and close()           *)
(* SpecTtl   a TTLCache under get, set and the passing of time             *)
(* SpecView  get_data_view: view resolution, fetch or stream               *)
(***************************************************************************)
EXTENDS Integers, Sequences, FiniteSets, TLC

VARIABLES
    now,                \* wall clock, datetime.now(timezone.utc), in minutes
    PRIVATE_KEY_CACHE,  \* security._PRIVATE_KEY_CACHE is set
    JWT_CACHE,          \* security._JWT_CACHE: <<>> (None) or <<token, expires_at>>
    last_jwt,           \* the last two values returned by get_snowflake_jwt, newest first
    jwt_call,           \* the last get_snowflake_jwt call: its time, outcome and key reads
    caller,             \* who runs the current execution: "stream", "query", "health"
    pc,                 \* position of execute_query_stream
    resp,               \* the submission response as received
    emitted,            \* rows yielded so far by execute_query_stream
    tasks,              \* partition index -> state of its _fetch_partition task
    completed,          \* partition indexes in the order their fetches completed
    results_list,       \* what asyncio.gather returned
    posts,              \* POST /api/v2/statements requests issued by this call
    gets,               \* partition index -> GET requests issued by this call
    error,              \* the exception execute_query_stream raised
    ret,                \* what the caller's operation returned or raised
    arg_columns,        \* process_rows on its own: the column list it is given
    arg_rows,           \* process_rows on its own: the raw rows it is given
    decoded,            \* process_rows on its own: what it returned or raised
    arg_bindings,       \* the bindings argument of execute_query_stream
    payload,            \* the request body built from it, <<>> before it is built
    clock,              \* time.time() of the gateway, in seconds
    response_cache,     \* main.response_cache.cache: the entries, least recently used first
    inflight,           \* fetch_table_data calls suspended at `await execute_query`
    reply,              \* what fetch_table_data returned or raised last
    base_fetch,         \* the last successful fetch of BaseRequest: data, time, still stored
    storage,            \* the limiter's counters: limiter key -> hits and expiry of its window
    sent,               \* X-API-KEY -> requests to /v1/data sent with it since the last clock step
    verdict,            \* what the limiter decided for the last request
    racers,             \* concurrent executions inside get_snowflake_jwt: position and locals
    handed,             \* what get_snowflake_jwt returned or raised at the current minute
    last_written,       \* the pair assigned to _JWT_CACHE by the latest assignment
    keys,               \* worker process -> key_manager._keys of that process
    key_file,           \* the content of api_keys.json
    issued,             \* generated key -> "never" handed out, "valid", or "revoked" since
    admin_secret,       \* settings.ADMIN_SECRET
    auth_reply,         \* the answer to the last request that went through a dependency
    arg_query,          \* the query string of a request to /v1/data/{view_id}
    statement,          \* the SQL text and bindings built from it
    warned,             \* the execution has logged the "Row mismatch" warning
    arg_partition,      \* a partitionInfo entry with its index and the statement handle
    p_url,              \* the URL _fetch_partition is called with for it
    shared_client,      \* SnowflakeClient._client: 0 (None) or the number of an AsyncClient
    clients,            \* AsyncClient number -> "unmade", "open" or "closed" (is_closed)
    runs,               \* execution -> its position and the client it got from get_client
    closing,            \* the client a close() call is awaiting aclose() of, 0 for none
    ttl_cache,          \* the entries of a TTLCache, least recently used first
    last_set,           \* key -> the time of its last set, -1 before the first
    used,               \* the keys in the order of their last use, latest last
    ttl_op,             \* the last TTLCache call: get or set, its key, what it returned
    view_call,          \* the last event at /v1/data/{view_id}: a call, or a fetch that ended
    fetches,            \* the fetch_table_data calls that await execute_query
    streams,            \* the StreamingResponses whose body was not asked for yet
    statements,         \* the query texts handed to the Snowflake client so far
    after_failure       \* table -> "alone" or "shared" after a fetch of it failed, "next"
                        \* after the call that followed, "no" otherwise

vars == <<now, PRIVATE_KEY_CACHE, JWT_CACHE, last_jwt, jwt_call, caller, pc, resp, emitted,
          tasks, completed, results_list, posts, gets, error, ret,
          arg_columns, arg_rows, decoded, arg_bindings, payload,
          clock, response_cache, inflight, reply, base_fetch,
          storage, sent, verdict,
          racers, handed, last_written,
          keys, key_file, issued, admin_secret, auth_reply,
          arg_query, statement,
          warned, arg_partition, p_url,
          shared_client, clients, runs, closing,
          ttl_cache, last_set, used, ttl_op,
          view_call, fetches, streams, statements, after_failure>>

pureVars == <<arg_columns, arg_rows, decoded, arg_bindings, payload>>
cacheVars == <<response_cache, inflight, reply, base_fetch>>
limitVars == <<storage, sent, verdict>>
raceVars == <<racers, handed, last_written>>
authVars == <<keys, key_file, issued, admin_secret, auth_reply>>
filterVars == <<arg_query, statement>>
newVars == <<raceVars, authVars, filterVars>>
logVars == <<warned>>
urlVars == <<arg_partition, p_url>>
clientVars == <<shared_client, clients, runs, closing>>
ttlVars == <<ttl_cache, last_set, used, ttl_op>>
viewVars == <<view_call, fetches, streams, statements, after_failure>>
lateVars == <<urlVars, clientVars, ttlVars, viewVars>>
gatewayVars == <<pureVars, clock, cacheVars, limitVars, newVars, lateVars>>
extVars == <<gatewayVars, logVars>>

jwtVars == <<PRIVATE_KEY_CACHE, JWT_CACHE, last_jwt, jwt_call>>
execVars == <<caller, pc, resp, emitted, tasks, completed, results_list,
              posts, gets, error, ret>>

-----------------------------------------------------------------------------
(* Bounds *)

MaxPartitions == 3      \* longest partitionInfo list the upstream sends
MaxTime == 54           \* the clock of the execution model stops here
MaxJwtTime == 60       \* the clock of the token model stops here
MaxWidth == 2           \* longest column list handed to process_rows; rows are up to one wider
MaxRows == 2            \* most raw rows handed to process_rows
MaxCacheEntries == 1    \* capacity of the response cache in the cache model (100 in main.py)
MaxInflight == 1        \* fetch_table_data calls that wait for Snowflake at the same time
MaxCacheClock == 600    \* the clock of the cache model stops here
MaxOverLimit == 2       \* requests one key sends beyond the limit within a window
MaxLimitClock == 60     \* the clock of the rate limit model stops here
MaxRaceTime == 56       \* the clock of the concurrent token model stops here
MaxCallMinutes == 1     \* minutes that can pass while one get_snowflake_jwt call runs
MaxKeys == 2            \* keys the admin endpoint hands out
MaxParams == 2          \* query parameters of one request
MaxClients == 2         \* AsyncClient objects made while the process runs
MaxTtlCapacity == 2     \* capacity of the TTLCache that is driven directly
MaxTtlSeconds == 1      \* single seconds that pass between two whole ttls
MaxTtlClock == 600      \* the clock of the TTLCache model stops here
MaxViewInflight == 2    \* calls of get_data_view that await Snowflake or their consumer

(* Program constants *)

LifetimeMinutes == 59
BufferMinutes == 5
SUCCESS_CODE == "090001"
StatementTimeout == 60
TTL_SECONDS == 300
CAPACITY == 100
RATE_AMOUNT == 50
RATE_WINDOW == 60

NoVal == "<absent>"     \* a JSON key that is missing (dict.get gives None)

-----------------------------------------------------------------------------
(* security.py *)

Token(t) == [iat |-> t, exp |-> t + LifetimeMinutes]

NoToken == [iat |-> -1, exp |-> -1]

\* a buffer test that still reuses the token at exactly expiry - 5 minutes
CacheValidInclusive(t, cache) == cache # <<>> /\ t <= cache[2] - BufferMinutes

\* a test that reuses the cached token until it expires
CacheValidNoBuffer(t, cache) == cache # <<>> /\ t < cache[2]

\* line 56-58: a token is cached and now < expires_at - 5 minutes
CacheValid(t, cache) == cache # <<>> /\ t < cache[2] - BufferMinutes

\* a loader that reads the PEM on every call and forgets the key it held
\* when the read fails
load_private_key_uncached(keyc, keyOk) == [ok |-> keyOk, key |-> keyOk, reads |-> 1]

\* load_private_key (lines 22-47): the cached key, else the key read now
\* (keyOk: the PEM could be read and parsed); reads counts the attempts to
\* read and parse the PEM
load_private_key(keyc, keyOk) ==
    [ok |-> keyc \/ keyOk, key |-> keyc \/ keyOk, reads |-> IF keyc THEN 0 ELSE 1]

\* get_snowflake_jwt at time t
get_snowflake_jwt(t, cache, keyc, keyOk) ==
    IF CacheValid(t, cache)
    THEN [ok |-> TRUE, token |-> cache[1], cache |-> cache, key |-> keyc, reads |-> 0]
    ELSE LET k == load_private_key(keyc, keyOk) IN
         IF k.ok
         THEN [ok |-> TRUE, token |-> Token(t),
               cache |-> <<Token(t), t + LifetimeMinutes>>, key |-> k.key,
               reads |-> k.reads]
         ELSE [ok |-> FALSE, token |-> NoToken, cache |-> cache, key |-> k.key,
               reads |-> k.reads]

\* no call of get_snowflake_jwt yet
NoJwtCall == [t |-> -1, ok |-> FALSE, reads |-> 0]

\* the record of the last two successful get_snowflake_jwt calls, newest first
Remember(t, j, log) ==
    IF j.ok THEN SubSeq(<<[t |-> t, token |-> j.token]>> \o log, 1, IF log = <<>> THEN 1 ELSE 2)
    ELSE log

-----------------------------------------------------------------------------
(* snowflake_client.py: values on the wire *)

RowType == <<"ID", "NAME">>

\* str.lower() on the column names the upstream sends
Lower(name) == CASE name = "ID" -> "id"
                 [] name = "NAME" -> "name"
                 [] OTHER -> name

\* Raw rows are <<chunk, position>>: chunk 0 is the inline chunk of the
\* submission response, chunk i + 1 is what the GET of partitionInfo[i] returns.
InlineRows == << <<0, 1>>, <<0, 2>> >>

\* the rows the upstream returns for partitionInfo[i]
PartitionData(i) == IF i % 2 = 1 THEN << <<i + 1, 1>>, <<i + 1, 2>> >> ELSE << <<i + 1, 1>> >>

ErrorStatuses == {422, 500}

\* exceptions: one record shape for all of them
Err(kind, status, code, message) ==
    [kind |-> kind, status |-> status, code |-> code, message |-> message]

NoError == Err("none", 0, NoVal, NoVal)

\* resultSetMetaData.numRows as the upstream sends it: absent (-1), or a
\* count that is 0, the length of InlineRows, or more
RowCounts == {-1, 0, 2, 5}

\* JSON bodies of a 2xx submission response; data is "absent" (no "data"
\* key), "empty" ([]) or "rows" (InlineRows); numRows is read at line 151 and
\* used at line 155 only when no partition is listed, so it is varied there
Bodies ==
    { b \in [handle : {NoVal, "h1"},
             code : {NoVal, SUCCESS_CODE, "", "390100"},
             message : {NoVal, "Invalid warehouse"},
             meta : {"absent", "noRowType", "full"},
             data : {"absent", "empty", "rows"},
             nparts : 0..MaxPartitions,
             numRows : RowCounts] :
        /\ (b.message # NoVal) => (b.code = "390100")
        /\ (b.meta = "absent") => (b.nparts = 0)
        /\ (b.numRows # -1) => (b.meta = "full" /\ b.nparts = 0) }

NoBody == [handle |-> NoVal, code |-> NoVal, message |-> NoVal,
           meta |-> "absent", data |-> "absent", nparts |-> 0, numRows |-> -1]

\* the JSON error object of a non-2xx answer
ErrorBody == [NoBody EXCEPT !.code = "390100", !.message = "Invalid warehouse"]

\* the JSON error objects of a non-2xx answer: the codes the gateway maps to a
\* status of its own (main.py lines 137-144) and one it passes through
ErrorBodies ==
    {ErrorBody,
     [NoBody EXCEPT !.code = "002003", !.message = "Object does not exist"],
     [NoBody EXCEPT !.code = "001003", !.message = "SQL compilation error"]}

\* 202 Accepted: the statement is still running, the body carries only the
\* statementHandle
StillRunning == [kind |-> "http", status |-> 202, parseable |-> TRUE,
                 body |-> [NoBody EXCEPT !.handle = "h1"]]

\* what the upstream can answer to the POST: no answer (network failure), a
\* non-2xx status with or without a JSON error object, a 2xx that is not
\* JSON, a 2xx JSON body
SubmitAnswers ==
    {[kind |-> "network", status |-> 0, parseable |-> FALSE, body |-> NoBody]}
    \cup {[kind |-> "http", status |-> s, parseable |-> FALSE, body |-> NoBody] :
              s \in ErrorStatuses}
    \cup {[kind |-> "http", status |-> s, parseable |-> TRUE, body |-> b] :
              s \in ErrorStatuses, b \in ErrorBodies}
    \cup {[kind |-> "http", status |-> 200, parseable |-> FALSE, body |-> NoBody]}
    \cup {[kind |-> "http", status |-> 200, parseable |-> TRUE, body |-> b] : b \in Bodies}
    \cup {StillRunning}

\* what the upstream can answer to a partition GET
PartitionAnswers ==
    {[kind |-> "network", status |-> 0, parseable |-> FALSE, body |-> NoBody]}
    \cup {[kind |-> "http", status |-> 500, parseable |-> TRUE, body |-> ErrorBody]}
    \cup {[kind |-> "http", status |-> 200, parseable |-> TRUE, body |-> NoBody]}

NoResp == [kind |-> "none", status |-> 0, parseable |-> FALSE, body |-> NoBody]

-----------------------------------------------------------------------------
(* snowflake_client.py: pure parts of execute_query_stream *)

Min(a, b) == IF a < b THEN a ELSE b

\* dict(zip(column_names, row)): pairs up to the shorter length, a repeated
\* name keeps its last value
Zip(column_names, row) ==
    LET n == Min(Len(column_names), Len(row)) IN
    [c \in {column_names[i] : i \in 1..n} |->
        row[CHOOSE i \in 1..n : /\ column_names[i] = c
                                /\ \A j \in 1..n : column_names[j] = c => j <= i]]

column_names_of(rowType) == [i \in 1..Len(rowType) |-> Lower(rowType[i])]

\* a decoder that hands the records back last row first
process_rows_reversed(column_names, rows) ==
    [k \in 1..Len(rows) |-> Zip(column_names, rows[Len(rows) + 1 - k])]

\* lines 132-137
process_rows(column_names, rows) == [k \in 1..Len(rows) |-> Zip(column_names, rows[k])]

\* A Python value handed over as a binding: its type and the text str() gives
\* for it.
PyValues ==
    {[py |-> "int", text |-> "10"], [py |-> "float", text |-> "1.5"],
     [py |-> "str", text |-> "Tech"], [py |-> "bool", text |-> "True"],
     [py |-> "NoneType", text |-> "None"]}

\* isinstance(value, cls): bool is a subclass of int
IsInstance(value, cls) ==
    \/ value.py = cls
    \/ value.py = "bool" /\ cls = "int"

\* _format_bindings (lines 61-73)
format_bindings(b) ==
    [k \in DOMAIN b |->
        [type |-> IF IsInstance(b[k], "int") THEN "FIXED"
                  ELSE IF IsInstance(b[k], "float") THEN "REAL"
                  ELSE "TEXT",
         value |-> b[k].text]]

PayloadFields == {"statement", "warehouse", "database", "schema", "timeout",
                  "resultSetMetaData"}

\* lines 93-105: the body of the POST; `if bindings:` is false for None and
\* for the empty dict, both are the empty map here
build_payload(query, b) ==
    [f \in PayloadFields \cup (IF DOMAIN b # {} THEN {"bindings"} ELSE {}) |->
        CASE f = "statement" -> query
          [] f = "timeout" -> StatementTimeout
          [] f = "resultSetMetaData" -> [format |-> "json"]
          [] f = "bindings" -> format_bindings(b)
          [] OTHER -> "settings"]

\* data.get("data", [])
DataOrEmpty(body) == IF body.data = "rows" THEN InlineRows ELSE <<>>

\* Python truthiness of data.get("code")
Truthy(code) == code # NoVal /\ code # ""

\* a check that compares against None instead of using truthiness
CodeIsErrorNonNull(code) == code # NoVal /\ code # SUCCESS_CODE

\* line 119: the immediate-error check
CodeIsError(code) == Truthy(code) /\ code # SUCCESS_CODE

\* the handler of httpx.HTTPStatusError (lines 206-218): for a 422 the try
\* block raises either the decode error of the body or the "Snowflake Error
\* [code]: message" exception, and the except Exception around it re-raises e
\* a is e.response
Raised422(a) ==
    IF a.parseable THEN Err("Exception", 0, a.body.code, a.body.message)
    ELSE Err("JSONDecodeError", 0, NoVal, NoVal)

HandleHTTPStatusError(e, a) ==
    IF e.status = 422
    THEN LET inner == Raised422(a) IN
         IF inner.kind # "none" THEN e ELSE inner
    ELSE e

\* the exception response.raise_for_status() raises: the raw status, with the
\* unparsed response attached
StatusError(a) == Err("HTTPStatusError", a.status, NoVal, NoVal)

\* a validation that takes a response without resultSetMetaData.rowType
SubmitErrorLenient(a) ==
    IF a.kind = "network" THEN Err("RequestError", 0, NoVal, NoVal)
    ELSE IF a.status \in ErrorStatuses THEN HandleHTTPStatusError(StatusError(a), a)
    ELSE IF ~a.parseable THEN Err("JSONDecodeError", 0, NoVal, NoVal)
    ELSE IF a.body.handle = NoVal THEN Err("KeyError", 0, NoVal, "statementHandle")
    ELSE IF CodeIsError(a.body.code) THEN Err("Exception", 0, NoVal, a.body.message)
    ELSE NoError

\* lines 112-130: what the code up to the first yield raises for answer a,
\* NoError when it raises nothing
SubmitError(a) ==
    IF a.kind = "network" THEN Err("RequestError", 0, NoVal, NoVal)
    ELSE IF a.status \in ErrorStatuses THEN HandleHTTPStatusError(StatusError(a), a)
    ELSE IF ~a.parseable THEN Err("JSONDecodeError", 0, NoVal, NoVal)
    ELSE IF a.body.handle = NoVal THEN Err("KeyError", 0, NoVal, "statementHandle")
    ELSE IF CodeIsError(a.body.code) THEN Err("Exception", 0, NoVal, a.body.message)
    ELSE IF a.body.meta = "absent" THEN Err("KeyError", 0, NoVal, "resultSetMetaData")
    ELSE IF a.body.meta = "noRowType" THEN Err("KeyError", 0, NoVal, "rowType")
    ELSE NoError

\* an execution that does not report the mismatch
RowMismatchSilent(body) == FALSE

\* lines 151-156: total_rows and total_rows > first_chunk_rows and not
\* partitions, the condition of the "Row mismatch" warning
RowMismatch(body) ==
    LET total_rows == body.numRows
        first_chunk_rows == Len(DataOrEmpty(body))
    IN /\ total_rows # -1 /\ total_rows # 0
       /\ total_rows > first_chunk_rows
       /\ body.nparts = 0

\* a loop that takes the first descriptor for satisfied whatever the inline chunk
has_initial_data_always(body) == TRUE

\* lines 161-166: the partition indexes that get a task, in enumerate order
has_initial_data(body) == Len(DataOrEmpty(body)) > 0

\* a loop that fetches every listed partition
SkippedNever(index, body) == FALSE

Skipped(index, body) == index = 0 /\ has_initial_data(body)

PendingSet(body) == {i \in 0..(body.nparts - 1) : ~Skipped(i, body)}

RECURSIVE Ascending(_)
Ascending(S) == IF S = {} THEN <<>>
                ELSE LET m == CHOOSE x \in S : \A y \in S : x <= y
                     IN <<m>> \o Ascending(S \ {m})

PendingIndexes(body) == Ascending(PendingSet(body))

\* a gather that hands the results back in completion order
GatherByCompletion(order, completion) ==
    [k \in 1..Len(completion) |-> PartitionData(completion[k])]

\* asyncio.gather(*tasks): the results in the order of the awaitables
GatherResults(order, completion) == [k \in 1..Len(order) |-> PartitionData(order[k])]

RECURSIVE Flatten(_)
Flatten(ss) == IF ss = <<>> THEN <<>> ELSE Head(ss) \o Flatten(Tail(ss))

\* a _fetch_partition that swallows its exception
FetchErrorSwallowed(a) == NoError

\* lines 44-59: the exception _fetch_partition raises for answer a, as
\* execute_query_stream re-raises it
FetchError(a) ==
    IF a.kind = "network" THEN Err("RequestError", 0, NoVal, NoVal)
    ELSE IF a.status \in ErrorStatuses THEN HandleHTTPStatusError(StatusError(a), a)
    ELSE NoError

\* the rows the stream has to yield before it reaches the partitions
InlineItems(body) == process_rows(column_names_of(RowType), DataOrEmpty(body))

\* a merge that keys the partition rows by the names as the upstream sent them
PartitionItemsRawNames(results) == process_rows(RowType, Flatten(results))

\* the rows the stream yields from the gathered partitions
PartitionItems(results) == process_rows(column_names_of(RowType), Flatten(results))

-----------------------------------------------------------------------------
(* utils.py: TTLCache, as a sequence of entries, least recently used first *)

\* None
NoValue == [table |-> NoVal, limit |-> 0, offset |-> 0, filters |-> {}, version |-> NoVal]

Has(cache, key) == \E i \in 1..Len(cache) : cache[i].key = key

IndexOf(cache, key) == CHOOSE i \in 1..Len(cache) : cache[i].key = key

Without(cache, i) == SubSeq(cache, 1, i - 1) \o SubSeq(cache, i + 1, Len(cache))

\* line 24
Expired(t, timestamp) == t - timestamp > TTL_SECONDS

\* a get that leaves the entry where it is in the order
TTLCache_get_in_place(cache, key, t) ==
    IF ~Has(cache, key) THEN [value |-> NoValue, cache |-> cache]
    ELSE LET i == IndexOf(cache, key) IN
         IF Expired(t, cache[i].timestamp)
         THEN [value |-> NoValue, cache |-> Without(cache, i)]
         ELSE [value |-> cache[i].value, cache |-> cache]

\* a get that stamps the entry with the time of the get
TTLCache_get_refreshing(cache, key, t) ==
    IF ~Has(cache, key) THEN [value |-> NoValue, cache |-> cache]
    ELSE LET i == IndexOf(cache, key) IN
         IF Expired(t, cache[i].timestamp)
         THEN [value |-> NoValue, cache |-> Without(cache, i)]
         ELSE [value |-> cache[i].value,
               cache |-> Append(Without(cache, i), [cache[i] EXCEPT !.timestamp = t])]

\* TTLCache.get (lines 20-28) at time t: the value, and the entries afterwards
TTLCache_get(cache, key, t) ==
    IF ~Has(cache, key) THEN [value |-> NoValue, cache |-> cache]
    ELSE LET i == IndexOf(cache, key) IN
         IF Expired(t, cache[i].timestamp)
         THEN [value |-> NoValue, cache |-> Without(cache, i)]
         ELSE [value |-> cache[i].value, cache |-> Append(Without(cache, i), cache[i])]

\* TTLCache.set (lines 30-35) at time t with the given capacity
TTLCache_set(cache, key, value, t, capacity) ==
    LET entry == [key |-> key, value |-> value, timestamp |-> t]
        stored == IF Has(cache, key)
                  THEN Append(Without(cache, IndexOf(cache, key)), entry)
                  ELSE Append(cache, entry)
    IN IF Len(stored) > capacity THEN Tail(stored) ELSE stored

\* the keys and the calls of the TTLCache that is driven directly
TtlKeys == {"ka", "kb", "kc"}

NoTtlOp == [op |-> "none", key |-> "none", value |-> NoValue]

\* the keys of the entries
KeysOf(cache) == {cache[i].key : i \in 1..Len(cache)}

\* key becomes the latest used
Touch(order, key) ==
    IF Has([i \in 1..Len(order) |-> [key |-> order[i]]], key)
    THEN Append(Without(order, CHOOSE i \in 1..Len(order) : order[i] = key), key)
    ELSE Append(order, key)

-----------------------------------------------------------------------------
(* main.py: fetch_table_data *)

\* the arguments of fetch_table_data; filters is the set of the dict's items
BaseRequest == [table |-> "COMPANIES", limit |-> 10, offset |-> 0, filters |-> {}]

Requests ==
    {BaseRequest,
     [BaseRequest EXCEPT !.table = "PRODUCTS"],
     [BaseRequest EXCEPT !.limit = 20],
     [BaseRequest EXCEPT !.offset = 10],
     [BaseRequest EXCEPT !.filters = {<<"sector", "Tech">>}]}

\* what Snowflake holds changes over time: the result of a query is the rows
\* of that query in one of these versions
Versions == {"v1", "v2"}

\* a key that leaves the filters out
cache_key_without_filters(req) == <<req.table, req.limit, req.offset, {}>>

\* lines 201-202: f"{table_name}:{limit}:{offset}:{filter_str}", where
\* filter_str is the sorted item list and "" for no filters
cache_key(req) == <<req.table, req.limit, req.offset, req.filters>>

\* lines 240-247: StandardResponse(data=results, meta=MetaData(total, limit,
\* offset)) for the rows execute_query returned for the query of req
response_obj(req, version) ==
    [table |-> req.table, limit |-> req.limit, offset |-> req.offset,
     filters |-> req.filters, version |-> version]

NoReply == [kind |-> "none", req |-> BaseRequest, x_cache |-> NoVal, value |-> NoValue]

NeverFetched == [data |-> NoValue, at |-> -1, stored |-> FALSE]

-----------------------------------------------------------------------------
(* main.py: the rate limit of /v1/data/{view_id} *)

ApiKeys == {"k1", "k2"}
RemoteAddresses == {"127.0.0.1"}
LimiterKeys == ApiKeys \cup RemoteAddresses

\* a key function that takes the client address whatever the headers are
get_rate_limit_key_by_address(request) == request.remote

\* lines 34-35: the X-API-KEY header, the client address without one
get_rate_limit_key(request) ==
    IF request.api_key # NoVal THEN request.api_key ELSE request.remote

\* requests that reach the handler carry the X-API-KEY header
DataRequests == [api_key : ApiKeys, remote : RemoteAddresses]

\* a counter of the limiter: hits in the current window and the time the
\* window ends; no window is open when expires is 0
NoWindow == [hits |-> 0, expires |-> 0]

\* "50/minute" (line 294) in the limiter's fixed-window storage: a hit opens
\* a window of 60 seconds when none is open or the open one has ended, and
\* counts in it
incr(counter, t) ==
    IF counter.hits = 0 \/ counter.expires <= t
    THEN [hits |-> 1, expires |-> t + RATE_WINDOW]
    ELSE [counter EXCEPT !.hits = counter.hits + 1]

\* the hit is within the limit
within_limit(counter) == counter.hits <= RATE_AMOUNT

\* lines 62-72
custom_rate_limit_handler ==
    [kind |-> "rejected", status |-> 429, code |-> "RATE_LIMIT_EXCEEDED",
     message |-> "Rate limit exceeded: 50 per 1 minute"]

Admitted == [kind |-> "admitted", status |-> 0, code |-> NoVal, message |-> NoVal]

NoVerdict == [api_key |-> NoVal, n |-> 0,
              answer |-> [kind |-> "none", status |-> 0, code |-> NoVal, message |-> NoVal]]

-----------------------------------------------------------------------------
(* security.py, get_snowflake_jwt statement by statement *)

\* the executions that call get_snowflake_jwt at the same time
Racers == {"e1", "e2"}

\* an execution outside get_snowflake_jwt
NoCall == [pc |-> "idle", t |-> 0, token |-> NoToken]

NoHand == [by |-> NoVal, ok |-> FALSE, token |-> NoToken]

\* an assignment that keeps the cached pair when it expires later
StorePairNewest(cache, encoded_jwt, expires_at) ==
    IF cache # <<>> /\ cache[2] > expires_at THEN cache ELSE <<encoded_jwt, expires_at>>

\* line 94: _JWT_CACHE = (encoded_jwt, expires_at), one assignment of one tuple
StorePair(cache, encoded_jwt, expires_at) == <<encoded_jwt, expires_at>>

-----------------------------------------------------------------------------
(* key_manager.py, dependencies.py, config.py: API keys and the admin secret *)

\* gunicorn.conf.py line 8 starts several worker processes; each imports
\* app.key_manager and so has a KeyManager of its own
Workers == {"w1", "w2"}

\* config.py lines 43-45: settings.valid_api_keys
EnvKeys == {"env-key"}

\* utils.py lines 7-11: the keys generate_secure_key can return
GeneratedKeys == {"sk_" \o ToString(n) : n \in 1..MaxKeys}

\* header values that hold a character outside ASCII (a byte above 0x7f,
\* which the server decodes as latin-1)
NonAscii == {"cl<e9>"}

\* X-API-KEY values a client sends; NoVal is a request without the header
KeyHeaders == EnvKeys \cup GeneratedKeys \cup NonAscii \cup {"wrong", NoVal}

\* X-Admin-Secret values a client sends
SecretHeaders == {"admin-secret", "wrong", NoVal} \cup NonAscii

\* the values of settings.ADMIN_SECRET: unset, empty, set
AdminSecrets == {NoVal, "", "admin-secret"}

\* secrets.compare_digest(a, b) on two str: TypeError unless both are ASCII
compare_digest(a, b) ==
    IF a \in NonAscii \/ b \in NonAscii THEN "TypeError"
    ELSE IF a = b THEN "True" ELSE "False"

\* KeyManager.__init__ and _load_keys (lines 13-30)
KeyManager_init(file) == file \cup EnvKeys

\* KeyManager.add_key (lines 40-44)
add_key(ks, key) == ks \cup {key}

\* KeyManager.revoke_key (lines 46-51)
revoke_key(ks, key) == ks \ {key}

\* KeyManager.is_valid (lines 53-57)
is_valid(ks, key) == key \in ks

\* what a dependency does: it returns, raises HTTPException or raises
\* another exception
Passes == [kind |-> "pass", status |-> 200, error |-> NoVal, message |-> NoVal]

HTTPException(status_code, name, detail) ==
    [kind |-> "HTTPException", status |-> status_code, error |-> name, message |-> detail]

TypeError == [kind |-> "TypeError", status |-> 0, error |-> NoVal, message |-> NoVal]

\* dependencies.verify_api_key (lines 14-37); the loop over the configured
\* keys calls compare_digest with the header value
verify_api_key(x_api_key, ks) ==
    IF is_valid(ks, x_api_key) THEN Passes
    ELSE IF \E valid_key \in EnvKeys : compare_digest(x_api_key, valid_key) = "TypeError"
    THEN TypeError
    ELSE IF \E valid_key \in EnvKeys : compare_digest(x_api_key, valid_key) = "True"
    THEN Passes
    ELSE HTTPException(401, "Authentication Failed",
                       "Invalid API Key provided. Please check your credentials.")

\* dependencies.verify_admin_secret (lines 39-46)
verify_admin_secret(x_admin_secret, secret) ==
    IF ~Truthy(secret) THEN HTTPException(503, NoVal, "Admin access not configured")
    ELSE IF compare_digest(x_admin_secret, secret) = "TypeError" THEN TypeError
    ELSE IF compare_digest(x_admin_secret, secret) = "False"
    THEN HTTPException(403, NoVal, "Invalid Admin Secret")
    ELSE Passes

\* the response to a request whose dependency did v: main.py lines 74-91 for
\* a missing header, lines 93-111 for an HTTPException, lines 158-164 for any
\* other exception
dependency_response(header, v) ==
    IF header = NoVal
    THEN [status |-> 422, error |-> "VALIDATION_ERROR"]
    ELSE IF v.kind = "HTTPException"
    THEN [status |-> v.status, error |-> v.error]
    ELSE IF v.kind = "TypeError"
    THEN [status |-> 500, error |-> NoVal]
    ELSE [status |-> 200, error |-> NoVal]

NoAuthReply == [endpoint |-> NoVal, header |-> NoVal, known |-> FALSE, status |-> 0,
                error |-> NoVal, ran |-> FALSE, new_key |-> NoVal]

-----------------------------------------------------------------------------
(* main.py lines 212-233, 263-275, 336-345: from the query string to SQL *)

\* A parameter name is a sequence of pieces of text: runs of letters, digits,
\* the underscore, and other characters.
Letters == {"a", "limit", "offset", "stream", "test", "filter", "col", "val"}
Digits == {"1"}

\* the parameters get_data_view declares itself (line 344)
ReservedNames == {<<"limit">>, <<"offset">>, <<"stream">>,
                  <<"test", "_", "filter", "_", "col">>,
                  <<"test", "_", "filter", "_", "val">>}

\* col.replace("_", "")
RemoveUnderscores(col) == SelectSeq(col, LAMBDA c : c # "_")

\* str.isalnum(): at least one character, and every character a letter or a digit
isalnum(text) ==
    Len(text) > 0 /\ \A k \in 1..Len(text) : text[k] \in Letters \cup Digits

\* a translation that takes every parameter name for a column
valid_column_any(col) == TRUE

\* lines 220 and 269: not col.replace("_", "").isalnum() skips the filter
valid_column(col) == isalnum(RemoveUnderscores(col))

\* a dict as the sequence of its items in insertion order
DictHas(d, key) == \E k \in 1..Len(d) : d[k].key = key

\* d[key] = value
DictSet(d, key, value) ==
    IF DictHas(d, key)
    THEN [k \in 1..Len(d) |-> IF d[k].key = key THEN [key |-> key, value |-> value] ELSE d[k]]
    ELSE Append(d, [key |-> key, value |-> value])

\* request.query_params.items(): one item per name, in the order the names
\* first occur, each with the value of its last occurrence
RECURSIVE query_params_items(_)
query_params_items(params) ==
    IF params = <<>> THEN <<>>
    ELSE LET n == Len(params) IN
         DictSet(query_params_items(SubSeq(params, 1, n - 1)), params[n].key, params[n].value)

\* lines 343-345: the loop over the items
RECURSIVE AddFilters(_, _)
AddFilters(filters, items) ==
    IF items = <<>> THEN filters
    ELSE AddFilters(IF Head(items).key \notin ReservedNames
                    THEN DictSet(filters, Head(items).key, Head(items).value)
                    ELSE filters,
                    Tail(items))

\* lines 336-345: the filters dict of get_data_view; an absent test_filter_col
\* is <<>>, an absent test_filter_val is NoVal
extract_filters(q) ==
    AddFilters(IF q.test_filter_col # <<>> /\ Truthy(q.test_filter_val)
               THEN <<[key |-> q.test_filter_col, value |-> q.test_filter_val]>>
               ELSE <<>>,
               query_params_items(q.params))

\* f"filter_{i}"
ParamName(i) == "filter_" \o ToString(i)

\* lines 217-226 and 267-273: the clauses of the filters from position k on;
\* enumerate counts the skipped filters too
RECURSIVE where_clauses(_, _)
where_clauses(filters, k) ==
    IF k > Len(filters) THEN <<>>
    ELSE (IF valid_column(filters[k].key)
          THEN <<[col |-> filters[k].key, param |-> ParamName(k - 1),
                  value |-> filters[k].value]>>
          ELSE <<>>) \o where_clauses(filters, k + 1)

\* f"{col} = :{param_name}"
ClauseText(c) == c.col \o <<" = :", c.param>>

\* " AND ".join(where_clauses)
RECURSIVE JoinAnd(_)
JoinAnd(cs) ==
    IF cs = <<>> THEN <<>>
    ELSE IF Len(cs) = 1 THEN ClauseText(cs[1])
    ELSE ClauseText(cs[1]) \o <<" AND ">> \o JoinAnd(Tail(cs))

\* the query text as the sequence of its pieces (lines 212-231, 263-275)
QueryText(table_name, cs, paged) ==
    <<"SELECT * FROM ", table_name>>
    \o (IF cs # <<>> THEN <<" WHERE ">> \o JoinAnd(cs) ELSE <<>>)
    \o (IF paged THEN <<" LIMIT :limit OFFSET :offset">> ELSE <<>>)

\* the bindings dict: base and one entry per clause
Bindings(base, cs) ==
    [name \in DOMAIN base \cup {cs[k].param : k \in 1..Len(cs)} |->
        IF \E k \in 1..Len(cs) : cs[k].param = name
        THEN (CHOOSE c \in {cs[k] : k \in 1..Len(cs)} : c.param = name).value
        ELSE base[name]]

\* what get_data_view hands to the Snowflake client for query string q:
\* fetch_table_data (lines 212-233) or, with stream=true, stream_table_data
\* (lines 263-278)
build_statement(q, table_name, limit, offset) ==
    LET cs == where_clauses(extract_filters(q), 1) IN
    IF q.stream
    THEN [query |-> QueryText(table_name, cs, FALSE), bindings |-> Bindings(<<>>, cs)]
    ELSE [query |-> QueryText(table_name, cs, TRUE),
          bindings |-> Bindings([name \in {"limit", "offset"} |->
                                    IF name = "limit" THEN limit ELSE offset], cs)]

NotBuilt == [query |-> <<>>, bindings |-> <<>>]

NoQuery == [params |-> <<>>, test_filter_col |-> <<>>, test_filter_val |-> NoVal,
            stream |-> FALSE]

-----------------------------------------------------------------------------
(* snowflake_client.py lines 174-192: the URL of a partition *)

\* A URL is the sequence of its pieces of text; a text that begins with
\* "http" or with "/" has that beginning as a piece of its own.
base_url == <<"http", "s://acct.snowflakecomputing.com">>

\* str.startswith
startswith(text, prefix) == Len(text) > 0 /\ text[1] = prefix

\* the text the pieces spell
RECURSIVE Joined(_)
Joined(pieces) == IF pieces = <<>> THEN "" ELSE Head(pieces) \o Joined(Tail(pieces))

\* the "url" values of a partitionInfo entry: the empty string, an absolute
\* URL, a name that begins with http, a path with and one without a leading
\* slash
PartitionUrls ==
    {<<>>,
     <<"http", "s://blob.example/results/p1">>,
     <<"http", "data/p1">>,
     <<"/", "results/p1">>,
     <<"results/p1">>}

\* the partitionInfo entries: without a "url" key, or with one
PartitionDescriptors ==
    {[has_url |-> FALSE, url |-> <<>>]} \cup {[has_url |-> TRUE, url |-> u] : u \in PartitionUrls}

StatementHandles == {"h1", "h2"}

\* a loop that hands the descriptor's url to _fetch_partition as it is
partition_url_as_given(partition, index, statement_handle) ==
    IF partition.has_url /\ partition.url # <<>> THEN partition.url
    ELSE <<"/", "api/v2/statements/", statement_handle, "?partition=", ToString(index)>>

\* lines 174-190: partition.get("url"), the constructed URL when it is None
\* or empty (not p_url), and the two ways a relative URL is completed
partition_url(partition, index, statement_handle) ==
    LET given == IF partition.has_url /\ partition.url # <<>>
                 THEN partition.url
                 ELSE <<"/", "api/v2/statements/", statement_handle,
                        "?partition=", ToString(index)>>
    IN IF startswith(given, "http") THEN given
       ELSE IF startswith(given, "/") THEN base_url \o given
       ELSE base_url \o <<"/", "api/v2/statements/", statement_handle, "/">> \o given

NoPartition == [partition |-> [has_url |-> FALSE, url |-> <<>>], index |-> 0,
                statement_handle |-> NoVal]

-----------------------------------------------------------------------------
(* snowflake_client.py lines 26-34: the shared HTTP client *)

\* the executions of execute_query_stream that run at the same time
Executions == {"x1", "x2"}

ClientNumbers == 1..MaxClients

\* the positions of an execution at which it is suspended with work left
Running == {"posted", "inline", "gathering"}

NoRun == [pc |-> "idle", client |-> 0]

\* httpx.AsyncClient(timeout=30.0): the next client that has not been made
NewClient(cs) ==
    CHOOSE n \in ClientNumbers : cs[n] = "unmade" /\ \A m \in 1..(n - 1) : cs[m] # "unmade"

\* get_client (lines 26-29): the client it returns, self._client and the
\* clients afterwards
get_client(shared, cs) ==
    IF shared = 0 \/ cs[shared] = "closed"
    THEN [client |-> NewClient(cs), shared |-> NewClient(cs),
          clients |-> [cs EXCEPT ![NewClient(cs)] = "open"]]
    ELSE [client |-> shared, shared |-> shared, clients |-> cs]

\* close (line 32): there is a client and it is open
close_applies(shared, cs) == shared # 0 /\ cs[shared] = "open"

-----------------------------------------------------------------------------
(* registry.py and main.py lines 318-334: the view registry *)

\* A name is the sequence of its pieces: words and the separators between
\* them.  The words that occur, in lower case, upper case and capitalised.
Words ==
    {[lower |-> "companies", upper |-> "COMPANIES", title |-> "Companies"],
     [lower |-> "company", upper |-> "COMPANY", title |-> "Company"],
     [lower |-> "index", upper |-> "INDEX", title |-> "Index"],
     [lower |-> "fed", upper |-> "FED", title |-> "Fed"],
     [lower |-> "reserve", upper |-> "RESERVE", title |-> "Reserve"],
     [lower |-> "federal", upper |-> "FEDERAL", title |-> "Federal"],
     [lower |-> "timeseries", upper |-> "TIMESERIES", title |-> "Timeseries"],
     [lower |-> "fbi", upper |-> "FBI", title |-> "Fbi"],
     [lower |-> "crime", upper |-> "CRIME", title |-> "Crime"],
     [lower |-> "climate", upper |-> "CLIMATE", title |-> "Climate"],
     [lower |-> "watch", upper |-> "WATCH", title |-> "Watch"],
     [lower |-> "labor", upper |-> "LABOR", title |-> "Labor"],
     [lower |-> "stats", upper |-> "STATS", title |-> "Stats"],
     [lower |-> "bureau", upper |-> "BUREAU", title |-> "Bureau"],
     [lower |-> "of", upper |-> "OF", title |-> "Of"],
     [lower |-> "statistics", upper |-> "STATISTICS", title |-> "Statistics"],
     [lower |-> "employment", upper |-> "EMPLOYMENT", title |-> "Employment"],
     [lower |-> "aircraft", upper |-> "AIRCRAFT", title |-> "Aircraft"],
     [lower |-> "carrier", upper |-> "CARRIER", title |-> "Carrier"],
     [lower |-> "name", upper |-> "NAME", title |-> "Name"],
     [lower |-> "users", upper |-> "USERS", title |-> "Users"]}

WordOf(piece) == CHOOSE w \in Words : piece \in {w.lower, w.upper, w.title}

IsWord(piece) == \E w \in Words : piece \in {w.lower, w.upper, w.title}

\* str.upper, str.lower
str_upper(text) ==
    [i \in 1..Len(text) |-> IF IsWord(text[i]) THEN WordOf(text[i]).upper ELSE text[i]]

str_lower(text) ==
    [i \in 1..Len(text) |-> IF IsWord(text[i]) THEN WordOf(text[i]).lower ELSE text[i]]

\* str.replace for a separator
str_replace(text, old, new) ==
    [i \in 1..Len(text) |-> IF text[i] = old THEN new ELSE text[i]]

\* lines 24-30: the manual aliases, in the order of the dict
ManualAliases ==
    <<[key |-> <<"companies">>, value |-> <<"COMPANY", "_", "INDEX">>],
      [key |-> <<"fed", "-", "reserve">>,
       value |-> <<"FEDERAL", "_", "RESERVE", "_", "TIMESERIES">>],
      [key |-> <<"fbi", "-", "crime">>, value |-> <<"FBI", "_", "CRIME", "_", "TIMESERIES">>],
      [key |-> <<"climate">>, value |-> <<"CLIMATE", "_", "WATCH", "_", "TIMESERIES">>],
      [key |-> <<"labor", "-", "stats">>,
       value |-> <<"BUREAU", "_", "OF", "_", "LABOR", "_", "STATISTICS", "_",
                   "EMPLOYMENT", "_", "TIMESERIES">>]>>

\* the stripped lines of snowflake_view_list.txt: a header, an empty line and
\* the view that test_dynamic_loading_works looks up
ViewList == <<<<"NAME">>, <<>>, <<"AIRCRAFT", "_", "CARRIER", "_", "INDEX">>>>

\* lines 42-57: the loop over the lines
RECURSIVE load_lines(_, _)
load_lines(registry, lines) ==
    IF lines = <<>> THEN registry
    ELSE LET table_name == Head(lines)
             slug == str_replace(str_lower(table_name), "_", "-")
         IN IF table_name = <<>> \/ str_lower(table_name) = <<"name">>
            THEN load_lines(registry, Tail(lines))
            ELSE load_lines(DictSet(registry, slug, table_name), Tail(lines))

\* load_view_registry (lines 17-67)
load_view_registry(lines) == load_lines(ManualAliases, lines)

\* line 70
VIEW_ALLOWLIST == load_view_registry(ViewList)

\* VIEW_ALLOWLIST.values()
RegistryValues == {VIEW_ALLOWLIST[i].value : i \in 1..Len(VIEW_ALLOWLIST)}

\* VIEW_ALLOWLIST[key]
RegistryValue(key) == VIEW_ALLOWLIST[CHOOSE i \in 1..Len(VIEW_ALLOWLIST) :
                                         VIEW_ALLOWLIST[i].key = key].value

\* the table names of the registry, as texts
RegistryTables == {Joined(v) : v \in RegistryValues}

\* a resolution that takes the upper-cased name for the table name
table_name_unchecked(view_id) ==
    IF DictHas(VIEW_ALLOWLIST, view_id) THEN RegistryValue(view_id)
    ELSE IF view_id \in RegistryValues THEN view_id
    ELSE str_replace(str_upper(view_id), "-", "_")

\* main.py lines 318-331: the table name of a view id, <<>> for none
table_name_of(view_id) ==
    LET direct == IF DictHas(VIEW_ALLOWLIST, view_id) THEN RegistryValue(view_id)
                  ELSE IF view_id \in RegistryValues THEN view_id
                  ELSE <<>>
        upper_view_id == str_replace(str_upper(view_id), "-", "_")
    IN IF direct # <<>> THEN direct
       ELSE IF DictHas(VIEW_ALLOWLIST, upper_view_id) THEN RegistryValue(upper_view_id)
       ELSE IF upper_view_id \in RegistryValues THEN upper_view_id
       ELSE <<>>

\* the view ids that are asked for: an alias, a table name, a slug that was
\* loaded, the same capitalised, a table name in lower case, a slug of a
\* table that has only an alias, an alias in upper case, two names that are
\* not views
ViewIds ==
    {<<"companies">>,
     <<"COMPANY", "_", "INDEX">>,
     <<"aircraft", "-", "carrier", "-", "index">>,
     <<"Aircraft", "-", "Carrier", "-", "Index">>,
     <<"aircraft", "_", "carrier", "_", "index">>,
     <<"company", "-", "index">>,
     <<"COMPANIES">>,
     <<"users">>,
     <<"INFORMATION_SCHEMA.TABLES">>}

NoViewCall == [event |-> "none", view_id |-> <<>>, stream |-> FALSE, status |-> 0,
               table |-> NoVal, x_cache |-> NoVal]

\* the arguments get_data_view passes to fetch_table_data (line 351) with the
\* default limit and offset and no filters
ViewRequest(table) == [BaseRequest EXCEPT !.table = table]

-----------------------------------------------------------------------------
(* State *)

Callers == {"stream", "query", "health"}

PartitionIndexes == 0..(MaxPartitions - 1)

\* a _fetch_partition task: "none", "inflight", "ok" or "failed", with the
\* answer its GET received
NoTask == [st |-> "none", answer |-> NoResp]

NoRet == [kind |-> "none", rows |-> <<>>, error |-> NoError, ok |-> FALSE,
          status |-> 0, health |-> NoVal, snowflake |-> NoVal]

InitBase ==
    /\ now = 0
    /\ PRIVATE_KEY_CACHE = FALSE
    /\ JWT_CACHE = <<>>
    /\ last_jwt = <<>>
    /\ jwt_call = NoJwtCall
    /\ caller = "query"
    /\ pc = "idle"
    /\ resp = NoResp
    /\ emitted = <<>>
    /\ tasks = [i \in PartitionIndexes |-> NoTask]
    /\ completed = <<>>
    /\ results_list = <<>>
    /\ posts = 0
    /\ gets = [i \in PartitionIndexes |-> 0]
    /\ error = NoError
    /\ ret = NoRet
    /\ warned = FALSE

\* nothing has been decoded and no request body has been built
NotDecoded == [kind |-> "none", rows |-> <<>>]

PureIdle ==
    /\ arg_columns = column_names_of(RowType)
    /\ arg_rows = InlineRows
    /\ decoded = NotDecoded
    /\ arg_bindings = <<>>
    /\ payload = <<>>

\* the gateway after start-up: an empty cache, no request yet
GatewayIdle ==
    /\ clock = 0
    /\ response_cache = <<>>
    /\ inflight = <<>>
    /\ reply = NoReply
    /\ base_fetch = NeverFetched
    /\ storage = [k \in LimiterKeys |-> NoWindow]
    /\ sent = [k \in ApiKeys |-> 0]
    /\ verdict = NoVerdict

\* no execution is inside get_snowflake_jwt
RaceIdle ==
    /\ racers = [r \in Racers |-> NoCall]
    /\ handed = NoHand
    /\ last_written = <<>>

\* every worker has loaded an empty api_keys.json and the configured keys
AuthIdle ==
    /\ keys = [w \in Workers |-> KeyManager_init({})]
    /\ key_file = {}
    /\ issued = [k \in GeneratedKeys |-> "never"]
    /\ admin_secret = "admin-secret"
    /\ auth_reply = NoAuthReply

FilterIdle ==
    /\ arg_query = NoQuery
    /\ statement = NotBuilt

\* no partition URL is being resolved
UrlIdle ==
    /\ arg_partition = NoPartition
    /\ p_url = <<>>

\* no AsyncClient has been made (line 17) and no execution runs
ClientIdle ==
    /\ shared_client = 0
    /\ clients = [n \in ClientNumbers |-> "unmade"]
    /\ runs = [x \in Executions |-> NoRun]
    /\ closing = 0

\* TTLCache.__init__ (utils.py lines 15-18): an empty cache, nothing called yet
TtlIdle ==
    /\ ttl_cache = <<>>
    /\ last_set = [k \in TtlKeys |-> -1]
    /\ used = <<>>
    /\ ttl_op = NoTtlOp

\* no request was made to /v1/data/{view_id}
ViewIdle ==
    /\ view_call = NoViewCall
    /\ fetches = <<>>
    /\ streams = <<>>
    /\ statements = {}
    /\ after_failure = [t \in RegistryTables |-> "no"]

LateIdle == UrlIdle /\ ClientIdle /\ TtlIdle /\ ViewIdle

Init == InitBase /\ PureIdle /\ GatewayIdle /\ RaceIdle /\ AuthIdle /\ FilterIdle /\ LateIdle

\* _get_headers(): the token call and its effect on the caches
UseJwt(j) ==
    /\ JWT_CACHE' = j.cache
    /\ PRIVATE_KEY_CACHE' = j.key
    /\ last_jwt' = Remember(now, j, last_jwt)
    /\ jwt_call' = [t |-> now, ok |-> j.ok, reads |-> j.reads]

-----------------------------------------------------------------------------
(* Actions *)

\* the clock advances; the execution model moves it by the age at which a
\* token stops being reused
Tick ==
    /\ now + (LifetimeMinutes - BufferMinutes) <= MaxTime
    /\ now' = now + (LifetimeMinutes - BufferMinutes)
    /\ UNCHANGED <<jwtVars, execVars>>
    /\ UNCHANGED extVars

\* lines 91-111: the generator runs up to the await of client.post; the
\* headers are built outside the try block, so a key that cannot be loaded
\* ends the execution before any request
Begin ==
    \E keyOk \in BOOLEAN :
        LET j == get_snowflake_jwt(now, JWT_CACHE, PRIVATE_KEY_CACHE, keyOk) IN
        /\ UseJwt(j)
        /\ posts' = IF j.ok THEN 1 ELSE 0
        /\ pc' = IF j.ok THEN "posted" ELSE "failed"
        /\ error' = IF j.ok THEN NoError ELSE Err("KeyLoadError", 0, NoVal, NoVal)

\* a stream that submits the statement when it is created, before the
\* consumer asks for a row
CallEager(c) ==
    /\ pc \in {"idle", "closed"} \/ ret # NoRet
    /\ caller' = c
    /\ resp' = NoResp
    /\ emitted' = <<>>
    /\ tasks' = [i \in PartitionIndexes |-> NoTask]
    /\ completed' = <<>>
    /\ results_list' = <<>>
    /\ gets' = [i \in PartitionIndexes |-> 0]
    /\ ret' = NoRet
    /\ warned' = FALSE
    /\ Begin
    /\ UNCHANGED now
    /\ UNCHANGED gatewayVars

\* a caller starts an execution: main.stream_table_data creates the generator,
\* execute_query and check_connection drain it at once
Call(c) ==
    /\ pc \in {"idle", "closed"} \/ ret # NoRet
    /\ caller' = c
    /\ resp' = NoResp
    /\ emitted' = <<>>
    /\ tasks' = [i \in PartitionIndexes |-> NoTask]
    /\ completed' = <<>>
    /\ results_list' = <<>>
    /\ gets' = [i \in PartitionIndexes |-> 0]
    /\ ret' = NoRet
    /\ IF c = "stream"
       THEN /\ pc' = "created"
            /\ posts' = 0
            /\ error' = NoError
            /\ UNCHANGED jwtVars
       ELSE Begin
    /\ warned' = FALSE
    /\ UNCHANGED now
    /\ UNCHANGED gatewayVars

\* the consumer of the stream asks for the first row
FirstNext ==
    /\ pc = "created"
    /\ Begin
    /\ UNCHANGED <<now, caller, resp, emitted, tasks, completed, results_list, gets, ret>>
    /\ UNCHANGED extVars

\* a handler that submits the statement again after a failed submission
PostRespondsRetry(a) ==
    /\ pc = "posted"
    /\ resp' = a
    /\ IF SubmitError(a) # NoError /\ posts < 2
       THEN posts' = posts + 1 /\ pc' = "posted" /\ error' = error
       ELSE /\ posts' = posts
            /\ error' = SubmitError(a)
            /\ pc' = IF SubmitError(a) = NoError THEN "inline" ELSE "failed"
    /\ UNCHANGED <<now, jwtVars, caller, emitted, tasks, completed, results_list,
                   gets, ret>>
    /\ UNCHANGED extVars

\* lines 111-130: the POST is answered and the response is validated
PostResponds(a) ==
    /\ pc = "posted"
    /\ resp' = a
    /\ error' = SubmitError(a)
    /\ pc' = IF SubmitError(a) = NoError THEN "inline" ELSE "failed"
    /\ UNCHANGED <<now, jwtVars, caller, emitted, tasks, completed, results_list,
                   posts, gets, ret>>
    /\ UNCHANGED extVars

\* lines 140-142: the next inline row is handed to the consumer
YieldInline ==
    /\ pc = "inline"
    /\ Len(emitted) < Len(InlineItems(resp.body))
    /\ emitted' = Append(emitted, InlineItems(resp.body)[Len(emitted) + 1])
    /\ UNCHANGED <<now, jwtVars, caller, pc, resp, tasks, completed, results_list,
                   posts, gets, error, ret>>
    /\ UNCHANGED extVars

\* a generator that starts the partition fetches while inline rows are still
\* to be handed out
StartPartitionsEarly ==
    /\ pc = "inline"
    /\ Len(emitted) <= Len(InlineItems(resp.body))
    /\ PendingSet(resp.body) # {}
    /\ LET j == get_snowflake_jwt(now, JWT_CACHE, PRIVATE_KEY_CACHE, TRUE) IN
       /\ UseJwt(j)
       /\ tasks' = [i \in PartitionIndexes |->
                       IF i \in PendingSet(resp.body)
                       THEN [NoTask EXCEPT !.st = "inflight"] ELSE NoTask]
       /\ gets' = [i \in PartitionIndexes |->
                       IF i \in PendingSet(resp.body) THEN gets[i] + 1 ELSE gets[i]]
       /\ pc' = "gathering"
    /\ warned' = RowMismatch(resp.body)
    /\ UNCHANGED <<now, caller, resp, emitted, completed, results_list, posts, error, ret>>
    /\ UNCHANGED gatewayVars

\* lines 149-197: after the inline rows the row counts are compared, the tasks
\* are built and gathered; every task builds its headers and calls client.get
\* before any of them can finish
StartPartitions ==
    /\ pc = "inline"
    /\ Len(emitted) = Len(InlineItems(resp.body))
    /\ warned' = RowMismatch(resp.body)
    /\ IF PendingSet(resp.body) = {}
       THEN /\ pc' = "done"
            /\ UNCHANGED <<jwtVars, tasks, gets, error>>
       ELSE \E keyOk \in BOOLEAN :
            LET j == get_snowflake_jwt(now, JWT_CACHE, PRIVATE_KEY_CACHE, keyOk) IN
            /\ UseJwt(j)
            /\ IF j.ok
               THEN /\ tasks' = [i \in PartitionIndexes |->
                                    IF i \in PendingSet(resp.body)
                                    THEN [NoTask EXCEPT !.st = "inflight"] ELSE NoTask]
                    /\ gets' = [i \in PartitionIndexes |->
                                    IF i \in PendingSet(resp.body) THEN gets[i] + 1 ELSE gets[i]]
                    /\ pc' = "gathering"
                    /\ error' = error
               ELSE /\ tasks' = [i \in PartitionIndexes |->
                                    IF i \in PendingSet(resp.body)
                                    THEN [NoTask EXCEPT !.st = "failed"] ELSE NoTask]
                    /\ gets' = gets
                    /\ pc' = "failed"
                    /\ error' = Err("KeyLoadError", 0, NoVal, NoVal)
    /\ UNCHANGED <<now, caller, resp, emitted, completed, results_list, posts, ret>>
    /\ UNCHANGED gatewayVars

\* a join that returns as soon as one fetch has succeeded
AllOkAny(t, body) == \E i \in PendingSet(body) : t[i].st = "ok"

\* line 197: gather returns when every awaited fetch has returned
AllOk(t, body) == \A i \in PendingSet(body) : t[i].st = "ok"

\* a merge that hands the rows of a partition to the consumer as soon as its
\* fetch succeeds, while other fetches are still in flight
CompletePartitionStreaming(i, a) ==
    /\ tasks[i].st = "inflight"
    /\ LET t == [tasks EXCEPT ![i] = [st |-> IF FetchError(a) = NoError THEN "ok" ELSE "failed",
                                      answer |-> a]] IN
       /\ tasks' = t
       /\ completed' = Append(completed, i)
       /\ IF pc # "gathering"
          THEN UNCHANGED <<pc, error, results_list, emitted>>
          ELSE IF FetchError(a) # NoError
          THEN /\ pc' = "failed"
               /\ error' = FetchError(a)
               /\ UNCHANGED <<results_list, emitted>>
          ELSE /\ emitted' = emitted \o PartitionItems(<<PartitionData(i)>>)
               /\ IF AllOk(t, resp.body)
                  THEN /\ pc' = "done"
                       /\ results_list' = GatherResults(PendingIndexes(resp.body), completed')
                       /\ UNCHANGED error
                  ELSE UNCHANGED <<pc, error, results_list>>
    /\ UNCHANGED <<now, jwtVars, caller, resp, posts, gets, ret>>
    /\ UNCHANGED extVars

\* lines 53-56 and 197: one partition GET is answered; gather raises the first
\* exception at once and leaves the other fetches running, and returns when
\* the last fetch has succeeded
CompletePartition(i, a) ==
    /\ tasks[i].st = "inflight"
    /\ LET t == [tasks EXCEPT ![i] = [st |-> IF FetchError(a) = NoError THEN "ok" ELSE "failed",
                                      answer |-> a]] IN
       /\ tasks' = t
       /\ completed' = Append(completed, i)
       /\ IF pc # "gathering"
          THEN UNCHANGED <<pc, error, results_list>>
          ELSE IF FetchError(a) # NoError
          THEN /\ pc' = "failed"
               /\ error' = FetchError(a)
               /\ UNCHANGED results_list
          ELSE IF AllOk(t, resp.body)
          THEN /\ pc' = "merging"
               /\ results_list' = GatherResults(PendingIndexes(resp.body), completed')
               /\ UNCHANGED error
          ELSE UNCHANGED <<pc, error, results_list>>
    /\ UNCHANGED <<now, jwtVars, caller, resp, emitted, posts, gets, ret>>
    /\ UNCHANGED extVars

\* lines 202-204: the next partition row is handed to the consumer
YieldPartition ==
    /\ pc = "merging"
    /\ Len(emitted) < Len(InlineItems(resp.body)) + Len(PartitionItems(results_list))
    /\ emitted' = Append(emitted,
            PartitionItems(results_list)[Len(emitted) - Len(InlineItems(resp.body)) + 1])
    /\ UNCHANGED <<now, jwtVars, caller, pc, resp, tasks, completed, results_list,
                   posts, gets, error, ret>>
    /\ UNCHANGED extVars

\* the generator returns after the last partition row
Finish ==
    /\ pc = "merging"
    /\ Len(emitted) = Len(InlineItems(resp.body)) + Len(PartitionItems(results_list))
    /\ pc' = "done"
    /\ UNCHANGED <<now, jwtVars, caller, resp, emitted, tasks, completed, results_list,
                   posts, gets, error, ret>>
    /\ UNCHANGED extVars

\* the consumer of the stream stops iterating while the generator is
\* suspended (not started, or at a yield)
Abandon ==
    /\ caller = "stream"
    /\ \/ pc = "created"
       \/ pc = "inline" /\ Len(emitted) > 0
       \/ pc = "merging" /\ Len(emitted) > Len(InlineItems(resp.body))
    /\ pc' = "closed"
    /\ UNCHANGED <<now, jwtVars, caller, resp, emitted, tasks, completed, results_list,
                   posts, gets, error, ret>>
    /\ UNCHANGED extVars

\* an execute_query that hands back the rows collected before a failure
execute_query_partial(state, rows, e) == [NoRet EXCEPT !.kind = "rows", !.rows = rows]

\* execute_query (lines 81-84): the collected list, or the stream's exception
execute_query(state, rows, e) ==
    IF state = "done"
    THEN [NoRet EXCEPT !.kind = "rows", !.rows = rows]
    ELSE [NoRet EXCEPT !.kind = "raise", !.error = e]

\* a check_connection that reports success whatever happened
check_connection_always(state, rows, e) == TRUE

\* check_connection (lines 224-231)
check_connection(state, rows, e) ==
    IF execute_query(state, rows, e).kind = "raise" THEN FALSE ELSE TRUE

\* main.health_check (lines 166-177)
health_check(state, rows, e) ==
    LET snowflake_status == check_connection(state, rows, e) IN
    [NoRet EXCEPT !.kind = "health", !.ok = snowflake_status, !.status = 200,
                  !.health = IF snowflake_status THEN "healthy" ELSE "degraded",
                  !.snowflake = IF snowflake_status THEN "connected" ELSE "disconnected"]

\* the execution ends and the caller's operation returns or raises
Return ==
    /\ pc \in {"done", "failed"}
    /\ ret = NoRet
    /\ ret' = CASE caller = "query" -> execute_query(pc, emitted, error)
                [] caller = "health" -> health_check(pc, emitted, error)
                [] OTHER -> [NoRet EXCEPT !.kind = IF pc = "done" THEN "end" ELSE "raise",
                                          !.error = error]
    /\ UNCHANGED <<now, jwtVars, caller, pc, resp, emitted, tasks, completed,
                   results_list, posts, gets, error>>
    /\ UNCHANGED extVars

Next ==
    \/ Tick
    \/ \E c \in Callers : Call(c)
    \/ FirstNext
    \/ \E a \in SubmitAnswers : PostResponds(a)
    \/ YieldInline
    \/ StartPartitions
    \/ \E i \in PartitionIndexes, a \in PartitionAnswers : CompletePartition(i, a)
    \/ YieldPartition
    \/ Finish
    \/ Abandon
    \/ Return

Spec == Init /\ [][Next]_vars

-----------------------------------------------------------------------------
(* The token provider on its own, on a clock of single minutes *)

TickMinute ==
    /\ now < MaxJwtTime
    /\ now' = now + 1
    /\ UNCHANGED <<jwtVars, execVars>>
    /\ UNCHANGED extVars

\* a direct call of get_snowflake_jwt()
GetToken ==
    /\ \E keyOk \in BOOLEAN :
         UseJwt(get_snowflake_jwt(now, JWT_CACHE, PRIVATE_KEY_CACHE, keyOk))
    /\ UNCHANGED <<now, execVars>>
    /\ UNCHANGED extVars

NextJwt == TickMinute \/ GetToken

SpecJwt == Init /\ [][NextJwt]_vars

-----------------------------------------------------------------------------
(* process_rows and the request body on their own, over every input *)

ColumnNames == {"id", "name"}
CellValues == {"c1", "Company 1"}
BindingNames == {"limit", "f_0"}

\* the sequences over S of length lo..hi
SeqsBetween(S, lo, hi) == UNION {[1..n -> S] : n \in lo..hi}

ColumnLists == SeqsBetween(ColumnNames, 0, MaxWidth)
RawRowLists == SeqsBetween(SeqsBetween(CellValues, 0, MaxWidth + 1), 0, MaxRows)
BindingMaps == UNION {[D -> PyValues] : D \in SUBSET BindingNames}

\* the query strings: parameters in the order they are sent, names may repeat
ParamNames == {<<"a">>, <<"a", "_", "1">>, <<"_">>, <<"a", "-", "1">>, <<"limit">>}
ParamValues == {"Tech", "x' OR '1'='1"}
QueryParams == SeqsBetween([key : ParamNames, value : ParamValues], 0, MaxParams)
QueryStrings == [params : QueryParams,
                 test_filter_col : {<<>>, <<"a">>, <<"a", "-", "1">>},
                 test_filter_val : {NoVal, "", "Fin"},
                 stream : BOOLEAN]

InitPure ==
    /\ InitBase
    /\ GatewayIdle
    /\ RaceIdle
    /\ AuthIdle
    /\ decoded = NotDecoded
    /\ payload = <<>>
    /\ statement = NotBuilt
    /\ p_url = <<>>
    /\ ClientIdle
    /\ TtlIdle
    /\ ViewIdle
    /\ \/ /\ arg_columns \in ColumnLists
          /\ arg_rows \in RawRowLists
          /\ arg_bindings = <<>>
          /\ arg_query = NoQuery
          /\ arg_partition = NoPartition
       \/ /\ arg_columns = column_names_of(RowType)
          /\ arg_rows = InlineRows
          /\ arg_bindings \in BindingMaps
          /\ arg_query = NoQuery
          /\ arg_partition = NoPartition
       \/ /\ arg_columns = column_names_of(RowType)
          /\ arg_rows = InlineRows
          /\ arg_bindings = <<>>
          /\ arg_query \in QueryStrings
          /\ arg_partition = NoPartition
       \/ /\ arg_columns = column_names_of(RowType)
          /\ arg_rows = InlineRows
          /\ arg_bindings = <<>>
          /\ arg_query = NoQuery
          /\ arg_partition \in [partition : PartitionDescriptors,
                                index : PartitionIndexes,
                                statement_handle : StatementHandles]

\* lines 132-137: process_rows(rows) with the column list of the closure
ProcessRows ==
    /\ decoded = NotDecoded
    /\ decoded' = [kind |-> "rows", rows |-> process_rows(arg_columns, arg_rows)]
    /\ UNCHANGED <<now, jwtVars, execVars, logVars, lateVars, newVars, arg_columns, arg_rows, arg_bindings, payload,
                   clock, cacheVars, limitVars>>

\* lines 93-105: the request body is built
BuildPayload ==
    /\ payload = <<>>
    /\ payload' = build_payload("SELECT 1", arg_bindings)
    /\ UNCHANGED <<now, jwtVars, execVars, logVars, lateVars, newVars, arg_columns, arg_rows, decoded, arg_bindings,
                   clock, cacheVars, limitVars>>

\* get_data_view, lines 336-351: the filters are taken from the query string
\* and the statement for the resolved view is built
BuildStatement ==
    /\ statement = NotBuilt
    /\ statement' = build_statement(arg_query, "COMPANIES", 10, 0)
    /\ UNCHANGED <<now, jwtVars, execVars, logVars, lateVars, pureVars, clock, cacheVars, limitVars,
                   raceVars, authVars, arg_query>>

\* snowflake_client.py lines 163-192: one turn of the loop over partitionInfo
\* for an entry that gets a task
ResolveUrl ==
    /\ arg_partition # NoPartition
    /\ p_url = <<>>
    /\ p_url' = partition_url(arg_partition.partition, arg_partition.index,
                              arg_partition.statement_handle)
    /\ UNCHANGED <<now, jwtVars, execVars, logVars, pureVars, clock, cacheVars, limitVars,
                   newVars, arg_partition, clientVars, ttlVars, viewVars>>

NextPure == ProcessRows \/ BuildPayload \/ BuildStatement \/ ResolveUrl

SpecPure == InitPure /\ [][NextPure]_vars

-----------------------------------------------------------------------------
(* The response cache of the gateway *)

TickCache ==
    /\ clock + TTL_SECONDS <= MaxCacheClock
    /\ clock' = clock + TTL_SECONDS
    /\ UNCHANGED <<now, jwtVars, execVars, logVars, lateVars, newVars, pureVars, cacheVars, limitVars>>

\* fetch_table_data, lines 198-233: the cache lookup, and for a miss the
\* query is built and execute_query is awaited
FetchTableData(req) ==
    LET got == TTLCache_get(response_cache, cache_key(req), clock)
        cached_result == got.value
    IN /\ response_cache' = got.cache
       /\ IF cached_result # NoValue
          THEN /\ reply' = [kind |-> "ok", req |-> req, x_cache |-> "HIT",
                            value |-> cached_result]
               /\ UNCHANGED inflight
          ELSE /\ Len(inflight) < MaxInflight
               /\ inflight' = Append(inflight, req)
               /\ UNCHANGED reply
       /\ UNCHANGED <<now, jwtVars, execVars, logVars, lateVars, newVars, pureVars, clock, base_fetch, limitVars>>

\* the entry that TTLCache.set pushes out, if any
Evicts(cache, key, capacity) ==
    ~Has(cache, key) /\ Len(cache) + 1 > capacity /\ cache # <<>>

\* fetch_table_data, lines 233-255: execute_query returns the rows in some
\* version and the response is stored and returned, or it raises and the
\* exception is re-raised
FetchReturns(i, ok, version) ==
    /\ i \in 1..Len(inflight)
    /\ LET req == inflight[i] IN
       /\ inflight' = Without(inflight, i)
       /\ IF ok
          THEN /\ response_cache' = TTLCache_set(response_cache, cache_key(req),
                                        response_obj(req, version), clock, MaxCacheEntries)
               /\ reply' = [kind |-> "ok", req |-> req, x_cache |-> "MISS",
                            value |-> response_obj(req, version)]
               /\ base_fetch' =
                     IF req = BaseRequest
                     THEN [data |-> response_obj(req, version), at |-> clock,
                           stored |-> MaxCacheEntries >= 1]
                     ELSE IF /\ Evicts(response_cache, cache_key(req), MaxCacheEntries)
                             /\ response_cache[1].key = cache_key(BaseRequest)
                     THEN [base_fetch EXCEPT !.stored = FALSE]
                     ELSE base_fetch
          ELSE /\ reply' = [kind |-> "raise", req |-> req, x_cache |-> NoVal,
                            value |-> NoValue]
               /\ UNCHANGED <<response_cache, base_fetch>>
    /\ UNCHANGED <<now, jwtVars, execVars, logVars, lateVars, newVars, pureVars, clock, limitVars>>

NextCache ==
    \/ TickCache
    \/ \E req \in Requests : FetchTableData(req)
    \/ \E i \in 1..MaxInflight, version \in Versions \cup {NoVal} :
          FetchReturns(i, version # NoVal, version)

SpecCache == Init /\ [][NextCache]_vars

-----------------------------------------------------------------------------
(* The rate limit of the gateway *)

\* the clock moves on by a whole window
TickLimit ==
    /\ clock + RATE_WINDOW <= MaxLimitClock
    /\ clock' = clock + RATE_WINDOW
    /\ sent' = [k \in ApiKeys |-> 0]
    /\ UNCHANGED <<now, jwtVars, execVars, logVars, lateVars, newVars, pureVars, cacheVars, storage, verdict>>

\* line 294: a request to /v1/data/{view_id} reaches the limiter; it is
\* counted under its limiter key and handed to get_data_view, or answered by
\* custom_rate_limit_handler
LimitedRequest(request) ==
    LET key == get_rate_limit_key(request)
        counter == incr(storage[key], clock)
    IN /\ storage[key].hits < RATE_AMOUNT + MaxOverLimit \/ storage[key].expires <= clock
       /\ storage' = [storage EXCEPT ![key] = counter]
       /\ sent' = [sent EXCEPT ![request.api_key] = sent[request.api_key] + 1]
       /\ verdict' = [api_key |-> request.api_key, n |-> sent'[request.api_key],
                      answer |-> IF within_limit(counter) THEN Admitted
                                 ELSE custom_rate_limit_handler]
       /\ UNCHANGED <<now, jwtVars, execVars, logVars, lateVars, newVars, pureVars, clock, cacheVars>>

NextLimit ==
    \/ TickLimit
    \/ \E request \in DataRequests : LimitedRequest(request)

SpecLimit == Init /\ [][NextLimit]_vars

-----------------------------------------------------------------------------
(* Concurrent executions inside get_snowflake_jwt *)

\* a minute passes; a call that has started takes at most MaxCallMinutes
TickRace ==
    /\ now < MaxRaceTime
    /\ \A r \in Racers : racers[r].pc # "idle" => now - racers[r].t < MaxCallMinutes
    /\ now' = now + 1
    /\ handed' = NoHand
    /\ UNCHANGED <<jwtVars, execVars, logVars, lateVars, pureVars, clock, cacheVars, limitVars,
                   racers, last_written, authVars, filterVars>>

\* lines 53-59: now is read and the cache is tested; a valid cached token is
\* returned
Enter(r) ==
    /\ racers[r].pc = "idle"
    /\ IF CacheValid(now, JWT_CACHE)
       THEN /\ handed' = [by |-> r, ok |-> TRUE, token |-> JWT_CACHE[1]]
            /\ UNCHANGED racers
       ELSE /\ racers' = [racers EXCEPT ![r] = [pc |-> "generating", t |-> now,
                                                token |-> NoToken]]
            /\ UNCHANGED handed
    /\ UNCHANGED <<now, jwtVars, execVars, logVars, lateVars, pureVars, clock, cacheVars, limitVars,
                   last_written, authVars, filterVars>>

\* lines 61-91: the key is loaded and the token of the time read at line 53
\* is signed; a key that cannot be loaded ends the call with its exception
Generate(r) ==
    /\ racers[r].pc = "generating"
    /\ \E keyOk \in BOOLEAN :
         LET k == load_private_key(PRIVATE_KEY_CACHE, keyOk) IN
         /\ PRIVATE_KEY_CACHE' = k.key
         /\ IF k.ok
            THEN /\ racers' = [racers EXCEPT ![r].pc = "encoded",
                                             ![r].token = Token(racers[r].t)]
                 /\ UNCHANGED handed
            ELSE /\ racers' = [racers EXCEPT ![r] = NoCall]
                 /\ handed' = [by |-> r, ok |-> FALSE, token |-> NoToken]
    /\ UNCHANGED <<now, JWT_CACHE, last_jwt, jwt_call, execVars, logVars, lateVars, pureVars, clock,
                   cacheVars, limitVars, last_written, authVars, filterVars>>

\* lines 93-96: the pair is stored and the token returned
Store(r) ==
    /\ racers[r].pc = "encoded"
    /\ JWT_CACHE' = StorePair(JWT_CACHE, racers[r].token, racers[r].t + LifetimeMinutes)
    /\ last_written' = <<racers[r].token, racers[r].t + LifetimeMinutes>>
    /\ handed' = [by |-> r, ok |-> TRUE, token |-> racers[r].token]
    /\ racers' = [racers EXCEPT ![r] = NoCall]
    /\ UNCHANGED <<now, PRIVATE_KEY_CACHE, last_jwt, jwt_call, execVars, logVars, lateVars, pureVars,
                   clock, cacheVars, limitVars, authVars, filterVars>>

NextRace ==
    \/ TickRace
    \/ \E r \in Racers : Enter(r)
    \/ \E r \in Racers : Generate(r)
    \/ \E r \in Racers : Store(r)

SpecRace == Init /\ [][NextRace]_vars

-----------------------------------------------------------------------------
(* API keys and the admin endpoint over several worker processes *)

\* the deployment: any value of ADMIN_SECRET
InitAuth ==
    /\ InitBase /\ PureIdle /\ GatewayIdle /\ RaceIdle /\ FilterIdle /\ LateIdle
    /\ keys = [w \in Workers |-> KeyManager_init({})]
    /\ key_file = {}
    /\ issued = [k \in GeneratedKeys |-> "never"]
    /\ admin_secret \in AdminSecrets
    /\ auth_reply = NoAuthReply

\* GET /v1/data/{view_id} handled by worker w (main.py lines 288-351):
\* verify_api_key runs before get_data_view, which runs only if it passes
DataRequest(w, header) ==
    LET v == verify_api_key(header, keys[w])
        r == dependency_response(header, v)
    IN /\ auth_reply' = [endpoint |-> "data", header |-> header,
                         known |-> header \in keys[w] \cup EnvKeys,
                         status |-> r.status, error |-> r.error,
                         ran |-> r.status = 200, new_key |-> NoVal]
       /\ UNCHANGED <<keys, key_file, issued, admin_secret>>
       /\ UNCHANGED <<now, jwtVars, execVars, logVars, lateVars, pureVars, clock, cacheVars, limitVars,
                   raceVars, filterVars>>

\* POST /admin/generate-key handled by worker w (main.py lines 179-192):
\* after verify_admin_secret a new key is put into the KeyManager of this
\* worker, and _save_keys (key_manager.py lines 32-38) writes this worker's
\* set to api_keys.json
GenerateKey(w, header) ==
    LET v == verify_admin_secret(header, admin_secret)
        r == dependency_response(header, v)
    IN /\ IF r.status # 200
          THEN /\ auth_reply' = [endpoint |-> "generate", header |-> header,
                                 known |-> FALSE, status |-> r.status,
                                 error |-> r.error, ran |-> FALSE, new_key |-> NoVal]
               /\ UNCHANGED <<keys, key_file, issued>>
          ELSE \E new_key \in GeneratedKeys :
               /\ issued[new_key] = "never"
               /\ keys' = [keys EXCEPT ![w] = add_key(keys[w], new_key)]
               /\ key_file' = keys'[w]
               /\ issued' = [issued EXCEPT ![new_key] = "valid"]
               /\ auth_reply' = [endpoint |-> "generate", header |-> header,
                                 known |-> FALSE, status |-> 200, error |-> NoVal,
                                 ran |-> TRUE, new_key |-> new_key]
       /\ UNCHANGED <<now, jwtVars, execVars, logVars, lateVars, pureVars, clock, cacheVars, limitVars,
                   raceVars, filterVars, admin_secret>>

\* key_manager.revoke_key(key) in worker w (lines 46-51)
RevokeKey(w, key) ==
    /\ IF is_valid(keys[w], key)
       THEN /\ keys' = [keys EXCEPT ![w] = revoke_key(keys[w], key)]
            /\ key_file' = keys'[w]
       ELSE UNCHANGED <<keys, key_file>>
    /\ issued' = IF issued[key] = "valid" THEN [issued EXCEPT ![key] = "revoked"]
                 ELSE issued
    /\ UNCHANGED <<admin_secret, auth_reply>>
    /\ UNCHANGED <<now, jwtVars, execVars, logVars, lateVars, pureVars, clock, cacheVars, limitVars,
                   raceVars, filterVars>>

\* worker w is started again and loads api_keys.json
Restart(w) ==
    /\ keys' = [keys EXCEPT ![w] = KeyManager_init(key_file)]
    /\ UNCHANGED <<key_file, issued, admin_secret, auth_reply>>
    /\ UNCHANGED <<now, jwtVars, execVars, logVars, lateVars, pureVars, clock, cacheVars, limitVars,
                   raceVars, filterVars>>

NextAuth ==
    \/ \E w \in Workers, header \in KeyHeaders : DataRequest(w, header)
    \/ \E w \in Workers, header \in SecretHeaders : GenerateKey(w, header)
    \/ \E w \in Workers, key \in GeneratedKeys : RevokeKey(w, key)
    \/ \E w \in Workers : Restart(w)

SpecAuth == InitAuth /\ [][NextAuth]_vars

-----------------------------------------------------------------------------
(* Executions that share the HTTP client, and close() *)

notClientVars == <<now, jwtVars, execVars, logVars, pureVars, clock, cacheVars, limitVars,
                   newVars, urlVars, ttlVars, viewVars>>

\* lines 107-111: an execution gets the client and issues its POST
StartRun(x) ==
    /\ runs[x].pc = "idle"
    /\ close_applies(shared_client, clients) \/ \E n \in ClientNumbers : clients[n] = "unmade"
    /\ LET got == get_client(shared_client, clients) IN
       /\ shared_client' = got.shared
       /\ clients' = got.clients
       /\ runs' = [runs EXCEPT ![x] = [pc |-> "posted", client |-> got.client]]
    /\ UNCHANGED closing
    /\ UNCHANGED notClientVars

\* the execution goes on: the POST is answered (line 111), the inline rows
\* have been taken and the partition fetches start (line 197), the fetches
\* return and the last row is taken; a request needs an open client
Advance(x) ==
    /\ runs[x].pc \in Running
    /\ runs[x].pc \in {"posted", "gathering"} => clients[runs[x].client] = "open"
    /\ runs' = [runs EXCEPT ![x].pc = CASE runs[x].pc = "posted" -> "inline"
                                         [] runs[x].pc = "inline" -> "gathering"
                                         [] OTHER -> "done"]
    /\ UNCHANGED <<shared_client, clients, closing>>
    /\ UNCHANGED notClientVars

\* a request of the execution fails (lines 206-222)
FailRun(x) ==
    /\ runs[x].pc \in {"posted", "gathering"}
    /\ runs' = [runs EXCEPT ![x].pc = "failed"]
    /\ UNCHANGED <<shared_client, clients, closing>>
    /\ UNCHANGED notClientVars

\* a generator that closes the client it used when it is closed
AbandonRunClosing(x) ==
    /\ runs[x].pc = "inline"
    /\ runs' = [runs EXCEPT ![x].pc = "closed"]
    /\ clients' = [clients EXCEPT ![runs[x].client] = "closed"]
    /\ UNCHANGED <<shared_client, closing>>
    /\ UNCHANGED notClientVars

\* the consumer stops iterating while the generator is suspended at a yield
AbandonRun(x) ==
    /\ runs[x].pc = "inline"
    /\ runs' = [runs EXCEPT ![x].pc = "closed"]
    /\ UNCHANGED <<shared_client, clients, closing>>
    /\ UNCHANGED notClientVars

\* the generator object of an execution that has ended goes away
EndRun(x) ==
    /\ runs[x].pc \in {"done", "failed", "closed"}
    /\ runs' = [runs EXCEPT ![x] = NoRun]
    /\ UNCHANGED <<shared_client, clients, closing>>
    /\ UNCHANGED notClientVars

\* close() up to its await (lines 32-33; main.py line 47 calls it at
\* shutdown): aclose() marks the client closed at once
CloseStart ==
    /\ closing = 0
    /\ close_applies(shared_client, clients)
    /\ clients' = [clients EXCEPT ![shared_client] = "closed"]
    /\ closing' = shared_client
    /\ UNCHANGED <<shared_client, runs>>
    /\ UNCHANGED notClientVars

\* close() after its await (line 34): self._client = None
CloseEnd ==
    /\ closing # 0
    /\ shared_client' = 0
    /\ closing' = 0
    /\ UNCHANGED <<clients, runs>>
    /\ UNCHANGED notClientVars

NextClient ==
    \/ \E x \in Executions : StartRun(x)
    \/ \E x \in Executions : Advance(x)
    \/ \E x \in Executions : FailRun(x)
    \/ \E x \in Executions : AbandonRun(x)
    \/ \E x \in Executions : EndRun(x)
    \/ CloseStart
    \/ CloseEnd

SpecClient == Init /\ [][NextClient]_vars

-----------------------------------------------------------------------------
(* A TTLCache under get and set *)

notTtlVars == <<now, jwtVars, execVars, logVars, pureVars, cacheVars, limitVars,
                newVars, urlVars, clientVars, viewVars>>

\* a value that is stored: the request it answers is left open, it is told
\* apart by the time at which it was stored
TtlValue(t) == [NoValue EXCEPT !.table = "T", !.version = ToString(t)]

\* time passes: a second, or a whole ttl
TickTtl ==
    /\ \/ /\ clock % TTL_SECONDS < MaxTtlSeconds
          /\ clock' = clock + 1
       \/ /\ clock + TTL_SECONDS <= MaxTtlClock
          /\ clock' = clock + TTL_SECONDS
    /\ UNCHANGED ttlVars
    /\ UNCHANGED notTtlVars

\* cache.get(key), utils.py lines 20-28
TtlGet(key) ==
    LET got == TTLCache_get(ttl_cache, key, clock) IN
    /\ ttl_cache' = got.cache
    /\ ttl_op' = [op |-> "get", key |-> key, value |-> got.value]
    /\ used' = IF got.value # NoValue THEN Touch(used, key) ELSE used
    /\ UNCHANGED <<last_set, clock>>
    /\ UNCHANGED notTtlVars

\* cache.set(key, value), utils.py lines 30-35
TtlSet(key) ==
    /\ ttl_cache' = TTLCache_set(ttl_cache, key, TtlValue(clock), clock, MaxTtlCapacity)
    /\ ttl_op' = [op |-> "set", key |-> key, value |-> NoValue]
    /\ used' = Touch(used, key)
    /\ last_set' = [last_set EXCEPT ![key] = clock]
    /\ UNCHANGED clock
    /\ UNCHANGED notTtlVars

NextTtl ==
    \/ TickTtl
    \/ \E key \in TtlKeys : TtlGet(key)
    \/ \E key \in TtlKeys : TtlSet(key)

SpecTtl == Init /\ [][NextTtl]_vars

-----------------------------------------------------------------------------
(* get_data_view: view resolution, fetch or stream *)

notViewVars == <<now, jwtVars, execVars, logVars, pureVars, clock, inflight, reply,
                 base_fetch, limitVars, newVars, urlVars, clientVars, ttlVars>>

Pending == Len(fetches) + Len(streams)

\* get_data_view (lines 318-351) for a request that has no filters, up to its
\* first await: 404 for a view id that is not resolved; with stream=true the
\* StreamingResponse of stream_table_data (lines 257-286); otherwise
\* fetch_table_data up to the cache hit or to execute_query (lines 198-233)
GetDataView(view_id, stream) ==
    LET table_name == table_name_of(view_id)
        table == Joined(table_name)
        req == ViewRequest(table)
        got == TTLCache_get(response_cache, cache_key(req), clock)
    IN IF table_name = <<>>
       THEN /\ view_call' = [event |-> "call", view_id |-> view_id, stream |-> stream,
                             status |-> 404, table |-> NoVal, x_cache |-> NoVal]
            /\ UNCHANGED <<response_cache, fetches, streams, statements, after_failure>>
            /\ UNCHANGED notViewVars
       ELSE IF stream
       THEN /\ Pending < MaxViewInflight
            /\ streams' = Append(streams, table)
            /\ view_call' = [event |-> "call", view_id |-> view_id, stream |-> TRUE,
                             status |-> 200, table |-> table, x_cache |-> NoVal]
            /\ UNCHANGED <<response_cache, fetches, statements, after_failure>>
            /\ UNCHANGED notViewVars
       ELSE /\ response_cache' = got.cache
            /\ after_failure' = [after_failure EXCEPT ![table] =
                                     IF @ \in {"alone", "shared"} THEN "next" ELSE "no"]
            /\ IF got.value # NoValue
               THEN /\ view_call' = [event |-> "call", view_id |-> view_id,
                                     stream |-> FALSE, status |-> 200, table |-> table,
                                     x_cache |-> "HIT"]
                    /\ UNCHANGED <<fetches, statements>>
               ELSE /\ Pending < MaxViewInflight
                    /\ fetches' = Append(fetches, table)
                    /\ statements' = statements \cup {QueryText(table, <<>>, TRUE)}
                    /\ view_call' = [event |-> "call", view_id |-> view_id,
                                     stream |-> FALSE, status |-> 0, table |-> table,
                                     x_cache |-> NoVal]
            /\ UNCHANGED streams
            /\ UNCHANGED notViewVars

\* the body of the StreamingResponse is asked for: generate (lines 278-280)
\* starts and hands the query to execute_query_stream
StreamIterates(i) ==
    /\ i \in 1..Len(streams)
    /\ statements' = statements \cup {QueryText(streams[i], <<>>, FALSE)}
    /\ streams' = Without(streams, i)
    /\ view_call' = [event |-> "iterate", view_id |-> <<>>, stream |-> TRUE,
                     status |-> 200, table |-> streams[i], x_cache |-> NoVal]
    /\ UNCHANGED <<response_cache, fetches, after_failure>>
    /\ UNCHANGED notViewVars

\* fetch_table_data, lines 233-251: execute_query returns, the response is
\* stored and returned
ViewFetchReturns(i) ==
    /\ i \in 1..Len(fetches)
    /\ LET req == ViewRequest(fetches[i]) IN
       response_cache' = TTLCache_set(response_cache, cache_key(req),
                                      response_obj(req, "v1"), clock, CAPACITY)
    /\ fetches' = Without(fetches, i)
    /\ view_call' = [event |-> "return", view_id |-> <<>>, stream |-> FALSE,
                     status |-> 200, table |-> fetches[i], x_cache |-> "MISS"]
    /\ UNCHANGED <<streams, statements, after_failure>>
    /\ UNCHANGED notViewVars

\* whether the failed fetch i was the only one to ask for its table: no
\* other fetch for it is under way and none has stored a response
FailedAlone(i) ==
    /\ ~Has(response_cache, cache_key(ViewRequest(fetches[i])))
    /\ \A j \in 1..Len(fetches) : j # i => fetches[j] # fetches[i]

\* a handler that stores an error response for the key
ViewFetchFailsCaching(i) ==
    /\ i \in 1..Len(fetches)
    /\ LET req == ViewRequest(fetches[i]) IN
       response_cache' = TTLCache_set(response_cache, cache_key(req),
                                      response_obj(req, "error"), clock, CAPACITY)
    /\ after_failure' = [after_failure EXCEPT ![fetches[i]] =
                             IF FailedAlone(i) THEN "alone" ELSE "shared"]
    /\ fetches' = Without(fetches, i)
    /\ view_call' = [event |-> "raise", view_id |-> <<>>, stream |-> FALSE,
                     status |-> 500, table |-> fetches[i], x_cache |-> NoVal]
    /\ UNCHANGED <<streams, statements>>
    /\ UNCHANGED notViewVars

\* fetch_table_data, lines 233 and 253-255: execute_query raises and the
\* exception is logged and raised again
ViewFetchFails(i) ==
    /\ i \in 1..Len(fetches)
    /\ after_failure' = [after_failure EXCEPT ![fetches[i]] =
                             IF FailedAlone(i) THEN "alone" ELSE "shared"]
    /\ fetches' = Without(fetches, i)
    /\ view_call' = [event |-> "raise", view_id |-> <<>>, stream |-> FALSE,
                     status |-> 500, table |-> fetches[i], x_cache |-> NoVal]
    /\ UNCHANGED <<response_cache, streams, statements>>
    /\ UNCHANGED notViewVars

NextView ==
    \/ \E view_id \in ViewIds, stream \in BOOLEAN : GetDataView(view_id, stream)
    \/ \E i \in 1..MaxViewInflight : StreamIterates(i)
    \/ \E i \in 1..MaxViewInflight : ViewFetchReturns(i)
    \/ \E i \in 1..MaxViewInflight : ViewFetchFails(i)

SpecView == Init /\ [][NextView]_vars

TypeOK ==
    /\ now \in 0..(IF MaxTime > MaxJwtTime THEN MaxTime ELSE MaxJwtTime)
    /\ pc \in {"idle", "created", "posted", "inline", "gathering", "merging",
               "done", "failed", "closed"}
    /\ posts \in 0..1

-----------------------------------------------------------------------------
(* Ordering of the emitted rows *)

\* the raw <<chunk, position>> pair a decoded row came from
Chunk(item) == item["id"]
Position(item) == item["name"]

Before(x, y) == Chunk(x) < Chunk(y) \/ (Chunk(x) = Chunk(y) /\ Position(x) < Position(y))

\* every row the upstream holds for this execution: the inline chunk and the
\* partitions that are fetched
AllItems(body) ==
    {InlineItems(body)[k] : k \in 1..Len(InlineItems(body))}
    \cup UNION {{process_rows(column_names_of(RowType), PartitionData(i))[k] :
                    k \in 1..Len(PartitionData(i))} : i \in PendingSet(body)}

\* C1: in every state the rows emitted so far are in the order inline chunk
\* first, then ascending partition index, each chunk in its original order,
\* whatever the order in which the partition fetches completed; and a finished
\* execution has emitted every inline row and every row of every fetched
\* partition.
C1_DeterministicOrder ==
    /\ \A p, q \in 1..Len(emitted) : p < q => Before(emitted[p], emitted[q])
    /\ pc = "done" =>
          {emitted[k] : k \in 1..Len(emitted)} = AllItems(resp.body)

\* partition 2 completed before partition 1 and the rows of both were emitted
C1_Witness ==
    /\ pc = "done"
    /\ Len(completed) >= 2
    /\ completed[1] = 2 /\ completed[2] = 1
    /\ Len(emitted) = Len(InlineRows) + Len(PartitionData(1)) + Len(PartitionData(2))

\* the partition answers that are failures
AnswerFails(a) == a.kind = "network" \/ a.status \in ErrorStatuses

\* the first partition whose fetch was answered with a failure
FirstFailure ==
    LET k == CHOOSE n \in 1..Len(completed) :
                /\ AnswerFails(tasks[completed[n]].answer)
                /\ \A m \in 1..(n - 1) : ~AnswerFails(tasks[completed[m]].answer)
    IN tasks[completed[k]].answer

SomeFailure == \E n \in 1..Len(completed) : AnswerFails(tasks[completed[n]].answer)

\* C2: when a partition fetch of an execute_query call was answered with a
\* failure, the call raises the error of that fetch (a RequestError for a
\* network failure, the HTTPStatusError of the status otherwise) and hands no
\* row to its caller, whatever the inline chunk and the other partitions gave.
C2_PartitionFailureFailsCall ==
    (caller = "query" /\ ret # NoRet /\ SomeFailure) =>
        /\ ret.kind = "raise"
        /\ ret.rows = <<>>
        /\ ret.error.kind = (IF FirstFailure.kind = "network" THEN "RequestError"
                             ELSE "HTTPStatusError")
        /\ ret.error.status = FirstFailure.status

\* execute_query raised although the inline chunk had rows and another
\* partition had been fetched successfully
C2_Witness ==
    /\ caller = "query"
    /\ ret.kind = "raise"
    /\ resp.body.data = "rows"
    /\ \E i, j \in PartitionIndexes : tasks[i].st = "ok" /\ tasks[j].st = "failed"

\* the submission was accepted: 2xx, JSON, handle and rowType present, no error code
Accepted == resp.kind = "http" /\ SubmitError(resp) = NoError

C4_AllListedPartitions ==
    (caller = "query" /\ ret.kind = "rows" /\ resp.body.data = "rows"
        /\ resp.body.nparts >= 1) =>
        /\ \A k \in 1..Len(InlineItems(resp.body)) :
              \E n \in 1..Len(ret.rows) : ret.rows[n] = InlineItems(resp.body)[k]
        /\ \A i \in 0..(resp.body.nparts - 1) :
              \E n \in 1..Len(ret.rows) : Chunk(ret.rows[n]) = i + 1

-----------------------------------------------------------------------------
(* Token reuse *)

\* C5: of two successive successful get_snowflake_jwt calls the later one
\* returns the token of the earlier one when it is made before that token's
\* expiry minus 5 minutes (in particular in the same minute), and otherwise a
\* new, different token issued at the time of the call; the first call issues
\* a new token; the cache always holds the token returned last with its expiry.
C5_TokenReuseAndRefresh ==
    /\ Len(last_jwt) >= 1 =>
          /\ JWT_CACHE = <<last_jwt[1].token, last_jwt[1].token.exp>>
          /\ last_jwt[1].token.exp = last_jwt[1].token.iat + LifetimeMinutes
    /\ Len(last_jwt) = 1 => last_jwt[1].token.iat = last_jwt[1].t
    /\ Len(last_jwt) = 2 =>
          LET new == last_jwt[1]
              old == last_jwt[2]
          IN /\ new.t < old.token.exp - BufferMinutes => new.token = old.token
             /\ new.t >= old.token.exp - BufferMinutes =>
                    /\ new.token # old.token
                    /\ new.token.iat = new.t
             /\ new.t = old.t => new.token = old.token

\* a call made exactly 5 minutes before the expiry of the cached token
\* returned a different token
C5_Witness ==
    /\ Len(last_jwt) = 2
    /\ last_jwt[1].t = last_jwt[2].token.exp - BufferMinutes
    /\ last_jwt[1].token # last_jwt[2].token

-----------------------------------------------------------------------------
(* Submission errors *)

JsonOk == resp.kind = "http" /\ resp.status = 200 /\ resp.parseable

C7_ErrorCarriesCodeAndMessage ==
    (caller = "query" /\ ret # NoRet /\ JsonOk /\ resp.body.handle # NoVal
        /\ resp.body.code = "390100") =>
        /\ ret.kind = "raise"
        /\ ret.error.code = resp.body.code
        /\ ret.error.message = resp.body.message

\* C8: after a non-2xx submission answer the call has failed with an error
\* built from the body's code and message when the body is a JSON error
\* object, and with the raw status otherwise.
C8_NonSuccessStatusError ==
    (resp.kind = "http" /\ resp.status \in ErrorStatuses) =>
        /\ pc = "failed"
        /\ IF resp.parseable
           THEN error.code = resp.body.code /\ error.message = resp.body.message
           ELSE error.kind = "HTTPStatusError" /\ error.status = resp.status

-----------------------------------------------------------------------------
(* check_connection and /health *)

\* the SELECT 1 execution failed: no key, no answer, a bad status, a body that
\* is not JSON or lacks a field, an error code, or a failed partition fetch
ExecutionFailed ==
    \/ posts = 0
    \/ resp.kind = "network"
    \/ resp.kind = "http" /\ resp.status \in ErrorStatuses
    \/ resp.kind = "http" /\ ~resp.parseable
    \/ resp.body.handle = NoVal
    \/ resp.body.meta # "full"
    \/ resp.body.code \notin {NoVal, SUCCESS_CODE, ""}
    \/ SomeFailure

\* C9: a finished /health request has not raised: it answers 200, with
\* healthy/connected exactly when the SELECT 1 execution succeeded and
\* degraded/disconnected for every failure of it.
C9_CheckConnectionNeverRaises ==
    (caller = "health" /\ ret # NoRet) =>
        /\ ret.kind = "health"
        /\ ret.status = 200
        /\ ret.ok = ~ExecutionFailed
        /\ ret.ok => (ret.health = "healthy" /\ ret.snowflake = "connected")
        /\ ~ret.ok => (ret.health = "degraded" /\ ret.snowflake = "disconnected")

\* /health answered degraded after a network failure of the POST
C9_Witness ==
    /\ caller = "health"
    /\ ret.kind = "health"
    /\ resp.kind = "network"
    /\ ret.health = "degraded"

-----------------------------------------------------------------------------
(* No retry *)

\* C10: a call issues at most one POST and at most one GET per partition, and
\* a failed call stays failed: until the next call starts it issues no request,
\* emits no row and keeps its error.
C10_NoRetry ==
    /\ [](posts <= 1 /\ \A i \in PartitionIndexes : gets[i] <= 1)
    /\ [][(pc = "failed" /\ ~(ret # NoRet /\ ret' = NoRet)) =>
            (pc' = "failed" /\ UNCHANGED <<posts, gets, emitted, error>>)]_vars

\* a call failed at a partition fetch after one POST and one GET per partition
C10_Witness ==
    /\ pc = "failed"
    /\ posts = 1
    /\ SomeFailure
    /\ gets[1] = 1 /\ gets[2] = 1

-----------------------------------------------------------------------------
(* execute_query and the stream *)

\* C11: execute_query runs the stream to its end (it never stops at a yield),
\* and when it has returned, it returned exactly the rows the stream yielded,
\* in the order the stream yielded them, if the stream ended normally, and it
\* raised the stream's exception, handing over no row, if the stream raised.
C11_QueryIsFullDrain ==
    /\ caller = "query" => pc \notin {"created", "closed"}
    /\ (caller = "query" /\ ret # NoRet) =>
          /\ pc \in {"done", "failed"}
          /\ pc = "done" => (ret.kind = "rows" /\ ret.rows = emitted)
          /\ pc = "failed" => (ret.kind = "raise" /\ ret.error = error /\ ret.rows = <<>>)

\* execute_query returned the inline rows and the rows of two partitions
C11_Witness ==
    /\ caller = "query"
    /\ ret.kind = "rows"
    /\ Len(ret.rows) = Len(InlineRows) + Len(PartitionData(1)) + Len(PartitionData(2))
    /\ ret.rows = emitted

-----------------------------------------------------------------------------
(* Row decoding *)

\* every raw row has as many values as there are columns
MatchingWidth == \A k \in 1..Len(arg_rows) : Len(arg_rows[k]) = Len(arg_columns)

\* record k of the output maps column i to value i of raw row k
Positional ==
    /\ Len(decoded.rows) = Len(arg_rows)
    /\ \A k \in 1..Len(arg_rows) :
          /\ DOMAIN decoded.rows[k] = {arg_columns[i] : i \in 1..Len(arg_columns)}
          /\ \A i \in 1..Len(arg_columns) :
                decoded.rows[k][arg_columns[i]] = arg_rows[k][i]

DistinctNames ==
    \A i, j \in 1..Len(arg_columns) : arg_columns[i] = arg_columns[j] => i = j

\* C13 as stated: for every column list and raw rows of matching width the
\* output has one record per raw row, in order, and record k maps cols[i] to
\* R[k][i] for every i.
C13_PositionalForEveryColumnList ==
    (decoded.kind = "rows" /\ MatchingWidth) => Positional

\* C13 amended: the same, for a column list whose names are pairwise
\* distinct; process_rows always returns (it raises nothing) and leaves its
\* arguments as they were.
C13_PositionalDecoding ==
    /\ (decoded.kind = "rows" /\ MatchingWidth /\ DistinctNames) => Positional
    /\ decoded.kind \in {"none", "rows"}

\* the example: ["id", "name"] and [["c1", "Company 1"]]
C13_Witness ==
    /\ arg_columns = <<"id", "name">>
    /\ arg_rows = << <<"c1", "Company 1">> >>
    /\ decoded.kind = "rows"
    /\ decoded.rows = <<[id |-> "c1", name |-> "Company 1"]>>

\* C15: when a raw row has a number of values different from the number of
\* columns, decoding fails with a protocol error instead of returning a
\* record for that row.
C15_WidthMismatchFails ==
    (decoded # NotDecoded /\ ~MatchingWidth) => decoded.kind = "raise"

-----------------------------------------------------------------------------
(* Bindings *)

\* C17: the request body has a bindings field exactly when the binding map is
\* non-empty; the formatted map has the keys of the binding map, and each
\* value is rendered as its text with type FIXED for an integer, REAL for a
\* floating-point number and TEXT for everything else.
C17_BindingFormatting ==
    payload # <<>> =>
        /\ ("bindings" \in DOMAIN payload) <=> (DOMAIN arg_bindings # {})
        /\ ("bindings" \in DOMAIN payload) =>
              /\ DOMAIN payload["bindings"] = DOMAIN arg_bindings
              /\ \A k \in DOMAIN arg_bindings :
                    /\ payload["bindings"][k].value = arg_bindings[k].text
                    /\ payload["bindings"][k].type =
                          (CASE arg_bindings[k].py = "int" -> "FIXED"
                             [] arg_bindings[k].py = "float" -> "REAL"
                             [] OTHER -> "TEXT")

-----------------------------------------------------------------------------
(* Column list and response shape *)

ShapeViolation ==
    /\ resp.kind = "http" /\ resp.status \notin ErrorStatuses /\ resp.parseable
    /\ resp.body.handle = NoVal \/ resp.body.meta # "full"

-----------------------------------------------------------------------------
(* Polling *)

\* C18: a submission answered with 202 and only a statementHandle does not
\* make execute_query raise: the call polls the statement and returns the
\* rows of the final 200 response.
C18_PollsUntilComplete ==
    (caller = "query" /\ resp = StillRunning /\ ret # NoRet) => ret.kind = "rows"

-----------------------------------------------------------------------------
(* Response caching *)

\* BaseRequest was fetched successfully, not more than the TTL ago, and its
\* entry has not been pushed out of the cache since
FetchedWithinTtl == base_fetch.stored /\ clock - base_fetch.at <= TTL_SECONDS

\* the value is the response to the query of req
AnswersRequest(value, req) ==
    /\ value.table = req.table /\ value.limit = req.limit
    /\ value.offset = req.offset /\ value.filters = req.filters

\* C19: a request identical to a successful fetch that is not older than the
\* TTL and has not been evicted never goes to Snowflake; a reply marked
\* X-Cache: HIT is given without a call of Snowflake, carries a response that
\* was fetched for exactly the same table, limit, offset and filters, and for
\* the base request it is the data of its last successful fetch; a reply
\* marked X-Cache: MISS is the end of a call of Snowflake.
C19_CachedWithinTtl ==
    [][/\ (Len(inflight') > Len(inflight) /\ inflight'[Len(inflight')] = BaseRequest)
            => ~FetchedWithinTtl
       /\ (reply' # reply /\ reply'.x_cache = "HIT") =>
            /\ inflight' = inflight
            /\ AnswersRequest(reply'.value, reply'.req)
            /\ reply'.req = BaseRequest =>
                  (FetchedWithinTtl /\ reply'.value = base_fetch.data)
       /\ (reply' # reply /\ reply'.x_cache = "MISS") =>
            /\ Len(inflight') < Len(inflight)
            /\ AnswersRequest(reply'.value, reply'.req)]_vars

\* the base request was answered from the cache exactly one TTL after it was
\* fetched, with the fetched data
C19_Witness ==
    /\ reply.kind = "ok" /\ reply.x_cache = "HIT"
    /\ reply.req = BaseRequest
    /\ base_fetch.stored /\ base_fetch.at = 0 /\ clock = TTL_SECONDS
    /\ reply.value = base_fetch.data
    /\ base_fetch.data.version = "v2"
    /\ inflight = <<>>

-----------------------------------------------------------------------------
(* Rate limiting *)

-----------------------------------------------------------------------------
(* The two phases of the stream and the join of the partition fetches *)

\* a partition GET has been issued by the current execution
SomeGet == \E i \in PartitionIndexes : gets[i] > 0

\* C26: whenever a partition GET has been issued, every inline row of the
\* submission response has already been handed to the consumer, in order.
C26_PhaseSeparation ==
    SomeGet =>
        /\ Len(emitted) >= Len(InlineItems(resp.body))
        /\ \A k \in 1..Len(InlineItems(resp.body)) : emitted[k] = InlineItems(resp.body)[k]

\* a stream with inline rows and partitions: the rows were taken, the GETs are out
C26_Witness ==
    /\ caller = "stream"
    /\ pc = "gathering"
    /\ resp.body.data = "rows"
    /\ Len(emitted) = Len(InlineRows)
    /\ gets[1] = 1 /\ gets[2] = 1

\* a partition row has been handed to the consumer
PartitionRowEmitted == \E k \in 1..Len(emitted) : Chunk(emitted[k]) > 0

C28_CancelOnFirstFailure ==
    (pc = "failed" /\ SomeFailure) =>
        /\ \A i \in PartitionIndexes : tasks[i].st # "inflight"
        /\ ~PartitionRowEmitted

-----------------------------------------------------------------------------
(* The first descriptor and the inline chunk *)

-----------------------------------------------------------------------------
(* main.py: the exception handlers and the response of /v1/data/{view_id} *)

\* a JSON error response of the gateway; absent keys are NoVal
GatewayReply(status, code, message, details) ==
    [status |-> status, code |-> code, message |-> message, details |-> details]

\* str(status_code)
Str(status) == CASE status = 422 -> "422"
                 [] status = 500 -> "500"
                 [] OTHER -> "0"

\* exc.response.text of a response
Text(a) == IF a.parseable THEN "<json text>" ELSE "<raw text>"

\* lines 113-119
upstream_connection_error_handler ==
    GatewayReply(503, NoVal, "Service Unavailable: Unable to connect to Snowflake", NoVal)

\* lines 121-156; a is exc.response
http_status_error_handler(a) ==
    IF ~a.parseable THEN GatewayReply(a.status, "UNKNOWN", Text(a), NoVal)
    ELSE LET message == IF a.body.message # NoVal THEN a.body.message ELSE Text(a)
             error_code == IF a.body.code # NoVal THEN a.body.code ELSE Str(a.status)
         IN CASE error_code = "002003" ->
                   GatewayReply(404, error_code,
                       "The requested data view could not be found in Snowflake.",
                       a.body.message)
              [] error_code = "001003" ->
                   GatewayReply(400, error_code, "Invalid Query generated.", a.body.message)
              [] OTHER -> GatewayReply(a.status, error_code, message, NoVal)

\* lines 158-164
global_exception_handler == GatewayReply(500, NoVal, "Internal Server Error", NoVal)

\* the handler registered for the class of exception e (lines 113, 121, 158);
\* a is the response attached to e
handle_exception(e, a) ==
    CASE e.kind = "RequestError" -> upstream_connection_error_handler
      [] e.kind = "HTTPStatusError" -> http_status_error_handler(a)
      [] OTHER -> global_exception_handler

\* the response whose raise_for_status raised: that of the first failed
\* partition GET, else that of the POST
FailedResponse == IF SomeFailure THEN FirstFailure ELSE resp

\* what the client of GET /v1/data/{view_id} has received once the
\* execution has ended.  fetch_table_data (lines 233, 253-255) lets the
\* exception of execute_query pass to the handlers.  stream_table_data (lines
\* 279-282) returns the StreamingResponse before the generator has run: the
\* status line 200 is sent, then the body is iterated, so an exception of the
\* stream reaches no handler and only cuts the body short.
DataResponse ==
    IF caller = "stream"
    THEN GatewayReply(200, NoVal, NoVal, NoVal)
    ELSE IF ret.kind = "raise" THEN handle_exception(ret.error, FailedResponse)
    ELSE GatewayReply(200, NoVal, NoVal, NoVal)

\* a data request has ended with a network-level failure towards the upstream
NetworkFailure(c) == caller = c /\ ret.kind = "raise" /\ ret.error.kind = "RequestError"

ServiceUnavailable(r) ==
    r.status = 503 /\ r.message = "Service Unavailable: Unable to connect to Snowflake"

\* C23: a data request that met a network-level failure towards the upstream,
\* on the submission POST or on a partition GET, is answered with HTTP 503 and
\* the "Service Unavailable" message, whether it was made with or without
\* stream=true.
C23_NetworkFailureIs503 ==
    /\ NetworkFailure("query") => ServiceUnavailable(DataResponse)
    /\ NetworkFailure("stream") => ServiceUnavailable(DataResponse)

\* the submission of a data request was answered with a non-2xx status and a
\* JSON error object that has a code and a message
UpstreamRefused(c) ==
    /\ caller = c
    /\ ret.kind = "raise"
    /\ resp.kind = "http" /\ resp.status \in ErrorStatuses
    /\ resp.parseable /\ resp.body.code # NoVal /\ resp.body.message # NoVal

\* the gateway response carries the code and the message of the upstream error
\* object, under the upstream status or the status the code is mapped to
CarriesUpstreamError(r) ==
    /\ r.code = resp.body.code
    /\ r.message = resp.body.message \/ r.details = resp.body.message
    /\ r.status = (CASE resp.body.code = "002003" -> 404
                     [] resp.body.code = "001003" -> 400
                     [] OTHER -> resp.status)

\* C24: when the submission of a data request is answered with a non-2xx
\* status (422 included) and a JSON error object, the gateway response carries
\* the upstream code and message and the upstream status, with 002003 mapped
\* to 404 and 001003 to 400, whether the request was made with or without
\* stream=true.
C24_UpstreamErrorMapping ==
    /\ UpstreamRefused("query") => CarriesUpstreamError(DataResponse)
    /\ UpstreamRefused("stream") => CarriesUpstreamError(DataResponse)

-----------------------------------------------------------------------------
(* API keys *)

\* C21: a data request whose X-API-KEY is neither in the key set of the key
\* manager nor among the configured keys is answered 401 with the error
\* "Authentication Failed", and get_data_view, which would submit a statement,
\* does not run for it.
C21_UnknownKeyRejected ==
    (auth_reply.endpoint = "data" /\ auth_reply.header # NoVal /\ ~auth_reply.known) =>
        /\ auth_reply.status = 401
        /\ auth_reply.error = "Authentication Failed"
        /\ ~auth_reply.ran

\* C22: a key handed out by the admin endpoint and not revoked since is valid
\* in every key manager and a data request carrying it passes authentication;
\* a generate-key request with a wrong admin secret is answered 403, one made
\* while no admin secret is configured 503, and neither adds a key.
C22_GeneratedKeyValidAtOnce ==
    /\ \A k \in GeneratedKeys : issued[k] = "valid" =>
          \A w \in Workers : is_valid(keys[w], k)
    /\ (/\ auth_reply.endpoint = "data"
        /\ auth_reply.header \in GeneratedKeys
        /\ issued[auth_reply.header] = "valid") => auth_reply.ran
    /\ (auth_reply.endpoint = "generate" /\ auth_reply.header # NoVal) =>
          /\ ~Truthy(admin_secret) => auth_reply.status = 503 /\ auth_reply.new_key = NoVal
          /\ (Truthy(admin_secret) /\ auth_reply.header # admin_secret) =>
                auth_reply.status = 403 /\ auth_reply.new_key = NoVal

-----------------------------------------------------------------------------
(* Filters *)

\* the parameter names f"filter_{i}" a request can produce
FilterParams == {ParamName(i) : i \in 0..MaxParams}

\* the positions of the query text at which the clause "<col> = :<param>"
\* stands, after WHERE or AND
ClausePositions(text, col, param) ==
    {k \in 2..Len(text) : /\ text[k - 1] \in {" WHERE ", " AND "}
                          /\ k + Len(col) + 1 <= Len(text)
                          /\ SubSeq(text, k, k + Len(col) + 1) = col \o <<" = :", param>>}

\* exactly one clause "<n> = :filter_i" in the statement, with filter_i bound to value
ContributesOnce(n, value) ==
    \E param \in FilterParams :
        /\ Cardinality(ClausePositions(statement.query, n, param)) = 1
        /\ \A other \in FilterParams \ {param} :
              ClausePositions(statement.query, n, other) = {}
        /\ param \in DOMAIN statement.bindings
        /\ statement.bindings[param] = value

ContributesNothing(n) ==
    \A param \in FilterParams : ClausePositions(statement.query, n, param) = {}

\* the name is made of letters, digits and underscores only
WordName(n) ==
    Len(n) > 0 /\ \A k \in 1..Len(n) : n[k] \in Letters \cup Digits \cup {"_"}

HasLetterOrDigit(n) == \E k \in 1..Len(n) : n[k] \in Letters \cup Digits

\* no filter value is part of the query text
ValuesOutOfText ==
    \A k \in 1..Len(statement.query) : statement.query[k] \notin ParamValues \cup {"Fin"}

FilterNamesOf(q) ==
    ({q.params[k].key : k \in 1..Len(q.params)} \ ReservedNames)
    \cup (IF q.test_filter_col # <<>> /\ Truthy(q.test_filter_val)
          THEN {q.test_filter_col} ELSE {})

\* the value a filter name stands for: that of the last query parameter of
\* this name, else test_filter_val
FilterValueOf(q, n) ==
    IF \E k \in 1..Len(q.params) : q.params[k].key = n
    THEN q.params[CHOOSE k \in 1..Len(q.params) :
                     /\ q.params[k].key = n
                     /\ \A m \in (k + 1)..Len(q.params) : q.params[m].key # n].value
    ELSE q.test_filter_val

-----------------------------------------------------------------------------
(* Concurrent token generation *)

\* C29: whatever the interleaving of the executions inside get_snowflake_jwt,
\* a token that is returned is valid at that time, the cache never holds a
\* token with the expiry of another one, and when no call is running the
\* cache holds the pair assigned last.
C29_BenignRace ==
    /\ handed.ok => handed.token.iat <= now /\ now < handed.token.exp
    /\ JWT_CACHE # <<>> => JWT_CACHE[2] = JWT_CACHE[1].exp
    /\ (\A r \in Racers : racers[r].pc = "idle") => JWT_CACHE = last_written

\* two executions found the cached token inside the buffer and both signed a
\* new one; one has stored and returned its token, the other is about to
\* store a different one
C29_Witness ==
    \E r, q \in Racers :
        /\ r # q
        /\ racers[r].pc = "encoded"
        /\ racers[r].t >= LifetimeMinutes - BufferMinutes
        /\ JWT_CACHE # <<>>
        /\ handed = [by |-> q, ok |-> TRUE, token |-> JWT_CACHE[1]]
        /\ handed.token # racers[r].token

-----------------------------------------------------------------------------
(* Token freshness *)

\* C31: every cached token expires 59 minutes after it was issued (never more
\* than 60), and every token get_snowflake_jwt returned for a call at time t,
\* which is the bearer token of the headers built by that call, had strictly
\* more than 5 minutes left at t.
C31_TokenFreshness ==
    /\ JWT_CACHE # <<>> =>
          /\ JWT_CACHE[2] = JWT_CACHE[1].iat + 59
          /\ JWT_CACHE[1].exp = JWT_CACHE[2]
          /\ JWT_CACHE[2] - JWT_CACHE[1].iat <= 60
    /\ \A k \in 1..Len(last_jwt) :
          /\ last_jwt[k].token.exp = last_jwt[k].token.iat + 59
          /\ last_jwt[k].token.exp - last_jwt[k].t > 5

\* a call reused a token that had 6 minutes left
C31_Witness ==
    /\ Len(last_jwt) = 2
    /\ last_jwt[1].token = last_jwt[2].token
    /\ last_jwt[1].token.exp - last_jwt[1].t = 6

-----------------------------------------------------------------------------
(* A private key that cannot be loaded *)

\* the execution ended because the key could not be loaded
CredentialFailure == pc = "failed" /\ error.kind = "KeyLoadError"

\* C34: a get_snowflake_jwt call that cannot read or parse the private key
\* fails, leaves the key cache and the token cache as they were and has tried
\* to read the key once; the execution that needed the token fails with that
\* error without having issued a request; a key that has been loaded stays
\* loaded, and a call made after that reads no key and does not fail, even
\* when the key could not be read any more.
C34_CredentialFailure ==
    /\ [](/\ jwt_call.reads <= 1
          /\ (jwt_call # NoJwtCall /\ ~jwt_call.ok) =>
                /\ jwt_call.reads = 1
                /\ ~PRIVATE_KEY_CACHE
                /\ JWT_CACHE = <<>>
          /\ CredentialFailure =>
                /\ ~jwt_call.ok
                /\ posts = 0
                /\ \A i \in PartitionIndexes : gets[i] = 0
                /\ emitted = <<>>)
    /\ [][/\ (jwt_call' # NoJwtCall /\ ~jwt_call'.ok) =>
                (JWT_CACHE' = JWT_CACHE /\ PRIVATE_KEY_CACHE' = PRIVATE_KEY_CACHE)
          /\ PRIVATE_KEY_CACHE =>
                /\ PRIVATE_KEY_CACHE'
                /\ jwt_call' # jwt_call => (jwt_call'.ok /\ jwt_call'.reads = 0)]_vars

\* the first request of a streamed execution found the key unreadable, after
\* an earlier execution had failed the same way
C34_Witness ==
    /\ CredentialFailure
    /\ caller = "stream"
    /\ jwt_call = [t |-> 54, ok |-> FALSE, reads |-> 1]
    /\ ~PRIVATE_KEY_CACHE /\ JWT_CACHE = <<>>
    /\ posts = 0

-----------------------------------------------------------------------------
(* A consumer that stops early *)

\* the consumer has stopped iterating before the inline chunk was exhausted
StoppedInInlineChunk == pc = "closed" /\ Len(emitted) < Len(InlineItems(resp.body))

\* C33: when the consumer of execute_query_stream stops iterating before the
\* inline chunk is exhausted, no partition GET has been issued for that
\* execution and none is issued later (the execution never runs again), and
\* the POST of a streamed execution is issued only when the consumer asks for
\* the first row, never while the generator is only created.
C33_LazyAbandonment ==
    /\ [](/\ StoppedInInlineChunk =>
                \A i \in PartitionIndexes : gets[i] = 0 /\ tasks[i] = NoTask
          /\ pc = "created" => (posts = 0 /\ resp = NoResp))
    /\ [][/\ (pc = "closed" /\ pc' # "closed") =>
                (pc' \in {"created", "posted", "failed"} /\ emitted' = <<>>)
          /\ (pc = "closed" /\ pc' = "closed") => gets' = gets
          /\ (caller' = "stream" /\ pc' = "posted" /\ pc # "posted") =>
                (caller = "stream" /\ pc = "created")]_vars

\* the consumer took one of two inline rows and stopped, with partitions
\* still to be fetched
C33_Witness ==
    /\ StoppedInInlineChunk
    /\ Len(emitted) = 1
    /\ PendingSet(resp.body) # {}
    /\ posts = 1
    /\ \A i \in PartitionIndexes : gets[i] = 0

-----------------------------------------------------------------------------
(* Partition URLs *)

\* base_url + "/api/v2/statements/" + h
StatementPath(h) == Joined(base_url) \o "/api/v2/statements/" \o h

\* the URL the four cases give for a descriptor whose "url" is taken as
\* missing when missing holds
UrlByCase(missing) ==
    LET url == arg_partition.partition.url
        h == arg_partition.statement_handle
        i == arg_partition.index
    IN IF missing THEN StatementPath(h) \o "?partition=" \o ToString(i)
       ELSE IF startswith(url, "http") THEN Joined(url)
       ELSE IF startswith(url, "/") THEN Joined(base_url) \o Joined(url)
       ELSE StatementPath(h) \o "/" \o Joined(url)

\* C36 as stated: the URL requested for a partition is the descriptor's url
\* when that starts with "http", base_url + url when it starts with "/",
\* base_url + "/api/v2/statements/" + h + "/" + url for any other url, and
\* base_url + "/api/v2/statements/" + h + "?partition=" + i when the
\* descriptor has no url.
C36_UrlResolution ==
    p_url # <<>> => Joined(p_url) = UrlByCase(~arg_partition.partition.has_url)

\* C36: the same, with a descriptor whose url is the empty string treated
\* like a descriptor without url.
C36_UrlResolutionEmptyAsMissing ==
    p_url # <<>> =>
        Joined(p_url) = UrlByCase(~arg_partition.partition.has_url
                                  \/ arg_partition.partition.url = <<>>)

\* a relative url without a leading slash was resolved for index 2
C36_Witness ==
    /\ arg_partition.partition = [has_url |-> TRUE, url |-> <<"results/p1">>]
    /\ arg_partition.index = 2
    /\ arg_partition.statement_handle = "h2"
    /\ Joined(p_url) = "https://acct.snowflakecomputing.com/api/v2/statements/h2/results/p1"

-----------------------------------------------------------------------------
(* A declared row count the response does not deliver *)

\* the submission was accepted, declares more rows than its inline chunk
\* holds, and lists no partition
DeclaresMoreRows ==
    /\ resp.kind = "http" /\ SubmitError(resp) = NoError
    /\ resp.body.numRows # -1
    /\ resp.body.numRows > Len(DataOrEmpty(resp.body))
    /\ resp.body.nparts = 0

\* C35: when numRows exceeds the number of inline rows and no partitions are
\* listed, the execution does not fail and fetches no partition; when it has
\* completed it has emitted exactly the inline rows and logged the warning,
\* and execute_query returns those rows.
C35_RowMismatchIsNotFatal ==
    DeclaresMoreRows =>
        /\ pc \in {"inline", "done", "closed"}
        /\ error = NoError
        /\ \A i \in PartitionIndexes : gets[i] = 0 /\ tasks[i] = NoTask
        /\ pc = "inline" => ~warned
        /\ pc = "done" =>
              /\ warned
              /\ emitted = InlineItems(resp.body)
        /\ (ret # NoRet /\ caller = "query") =>
              (ret.kind = "rows" /\ ret.rows = InlineItems(resp.body))
        /\ (ret # NoRet /\ caller = "stream") => ret.kind = "end"

\* execute_query returned the two inline rows of a response that declared five
C35_Witness ==
    /\ DeclaresMoreRows
    /\ resp.body.numRows = 5 /\ resp.body.data = "rows"
    /\ pc = "done" /\ warned
    /\ caller = "query" /\ ret.kind = "rows" /\ Len(ret.rows) = 2

-----------------------------------------------------------------------------
(* The shared HTTP client *)

\* C32: a client goes from open to closed only in the step in which close()
\* is called; whatever another execution does (it fails, completes, is
\* abandoned, goes away), an execution keeps the client it got and that client
\* stays as it was; get_client returns an open client, which is self._client
\* afterwards, the one already there when that is open and a new one when
\* there is none or it has been closed.
C32_ClosedOnlyByClose ==
    [][/\ \A n \in ClientNumbers :
             (clients[n] = "open" /\ clients'[n] = "closed") =>
                 (closing = 0 /\ closing' = n /\ shared_client = n)
       /\ \A x \in Executions :
             (runs[x].pc \in Running /\ runs'[x].pc # "idle") =>
                 runs'[x].client = runs[x].client
       /\ \A x \in Executions :
             (runs[x].pc = "idle" /\ runs'[x].pc # "idle") =>
                 LET c == runs'[x].client IN
                 /\ c \in ClientNumbers
                 /\ clients'[c] = "open"
                 /\ shared_client' = c
                 /\ IF shared_client # 0 /\ clients[shared_client] = "open"
                    THEN c = shared_client
                    ELSE clients[c] = "unmade"]_vars

\* one execution was abandoned and another failed while a third use of the
\* client goes on: after a close(), an execution runs with the second client,
\* which is open, next to an abandoned execution that had the first
C32_Witness ==
    /\ runs["x1"] = [pc |-> "closed", client |-> 1]
    /\ runs["x2"] = [pc |-> "gathering", client |-> 2]
    /\ clients[1] = "closed" /\ clients[2] = "open"
    /\ shared_client = 2 /\ closing = 0

-----------------------------------------------------------------------------
(* TTLCache: capacity and order of eviction *)

\* the least recently used of the keys in the cache
LeastRecentlyUsed(order, present) ==
    LET i == CHOOSE j \in 1..Len(order) :
                 order[j] \in present /\ \A m \in 1..(j - 1) : order[m] \notin present
    IN order[i]

\* C37: the cache never holds more entries than its capacity (the response
\* cache is made with the default capacity, 100); a set leaves the key in the
\* cache and removes nothing when the capacity is not exceeded, and otherwise
\* removes exactly the key whose last use, a get that returned it or a set,
\* is the oldest; a get removes nothing but an expired entry of its key.
C37_CapacityAndLru ==
    /\ [](Len(ttl_cache) <= MaxTtlCapacity /\ MaxTtlCapacity <= CAPACITY)
    /\ [][clock' = clock =>
            LET key == ttl_op'.key
                all == KeysOf(ttl_cache) \cup {key}
            IN IF ttl_op'.op = "set"
               THEN IF Cardinality(all) <= MaxTtlCapacity
                    THEN KeysOf(ttl_cache') = all
                    ELSE KeysOf(ttl_cache') =
                             all \ {LeastRecentlyUsed(used, KeysOf(ttl_cache))}
               ELSE IF ttl_op'.value # NoValue
                    THEN KeysOf(ttl_cache') = KeysOf(ttl_cache)
                    ELSE KeysOf(ttl_cache') = KeysOf(ttl_cache) \ {key}]_vars

\* ka was set before kb, then ka was read, and the set of kc evicted kb
C37_Witness ==
    /\ KeysOf(ttl_cache) = {"ka", "kc"}
    /\ ttl_op.op = "set" /\ ttl_op.key = "kc"
    /\ used = <<"kb", "ka", "kc">>
    /\ last_set["ka"] < last_set["kb"]

-----------------------------------------------------------------------------
(* TTLCache: expiry *)

\* the seconds since the last set of the key
Age(key) == clock - last_set[key]

\* C38: a get returns either None or the value of the last set of its key, and
\* then no more than ttl seconds (300) have passed since that set; when more
\* have passed and the key is in the cache, the get returns None and the entry
\* is gone after it; every entry keeps the time of its last set, whatever gets
\* returned it since.
C38_Expiry ==
    /\ [](\A i \in 1..Len(ttl_cache) :
             /\ ttl_cache[i].timestamp = last_set[ttl_cache[i].key]
             /\ ttl_cache[i].value = TtlValue(last_set[ttl_cache[i].key]))
    /\ [][(clock' = clock /\ ttl_op'.op = "get") =>
            LET key == ttl_op'.key
                value == ttl_op'.value
            IN /\ value # NoValue =>
                     /\ last_set[key] # -1
                     /\ Age(key) <= TTL_SECONDS
                     /\ value = TtlValue(last_set[key])
               /\ (Has(ttl_cache, key) /\ Age(key) > TTL_SECONDS) =>
                     /\ value = NoValue
                     /\ ~Has(ttl_cache', key)]_vars

\* ka was set at 0, returned by a get at 300, and a get at 301 removed it
C38_Witness ==
    /\ clock = 301
    /\ last_set["ka"] = 0
    /\ ttl_op = [op |-> "get", key |-> "ka", value |-> NoValue]
    /\ used = <<"kb", "ka">>
    /\ KeysOf(ttl_cache) = {"kb"}

-----------------------------------------------------------------------------
(* The allowlist of views *)

\* a view id that is no key and no value of the registry, and is neither
\* after upper-casing and replacing "-" by "_"
Unresolved(view_id) ==
    LET upper_view_id == str_replace(str_upper(view_id), "-", "_")
        names == {VIEW_ALLOWLIST[i].key : i \in 1..Len(VIEW_ALLOWLIST)} \cup RegistryValues
    IN view_id \notin names /\ upper_view_id \notin names

\* C39: the table name in every query text handed to the Snowflake client, by
\* a fetch or by a stream, is a value of the registry, and so is the table of
\* every fetch and stream under way; a call with a view id that resolves to no
\* registry entry is answered 404, hands no statement to the client, starts
\* no fetch and no stream and leaves the response cache as it is, and a call
\* with any other view id is not answered 404.
C39_Allowlist ==
    /\ [](/\ \A s \in statements : s[1] = "SELECT * FROM " /\ s[2] \in RegistryTables
          /\ \A i \in 1..Len(fetches) : fetches[i] \in RegistryTables
          /\ \A i \in 1..Len(streams) : streams[i] \in RegistryTables
          /\ \A i \in 1..Len(response_cache) : response_cache[i].value.table \in RegistryTables
          /\ view_call.event = "call" =>
                (view_call.status = 404 <=> Unresolved(view_call.view_id)))
    /\ [][(view_call'.event = "call" /\ Unresolved(view_call'.view_id)) =>
             /\ view_call'.status = 404
             /\ UNCHANGED <<statements, fetches, streams, response_cache>>]_vars

\* fetches and a stream for both tables have been handed to the client, and
\* the last call, for the upper-cased alias, is answered 404
C39_Witness ==
    /\ view_call = [event |-> "call", view_id |-> <<"COMPANIES">>, stream |-> TRUE,
                    status |-> 404, table |-> NoVal, x_cache |-> NoVal]
    /\ statements = {QueryText("COMPANY_INDEX", <<>>, TRUE),
                     QueryText("AIRCRAFT_CARRIER_INDEX", <<>>, FALSE)}
    /\ fetches = <<"COMPANY_INDEX">>

-----------------------------------------------------------------------------
(* A fetch that fails *)

\* the step is a fetch_table_data call ending with the exception of
\* execute_query
FetchFailed == Len(fetches') < Len(fetches) /\ view_call'.event = "raise"

\* the step is a call or a body of a streaming request
StreamStep ==
    \/ Len(streams') # Len(streams)
    \/ view_call' # view_call /\ view_call'.event = "call" /\ view_call'.stream

\* the step is the first non-streaming call for the table after a failed
\* fetch of it, and it calls the Snowflake client
NextAfterFailure(table, kinds) ==
    (after_failure[table] \in kinds /\ after_failure'[table] = "next") =>
        /\ fetches' = Append(fetches, table)
        /\ view_call'.x_cache # "HIT"

\* C40 as stated: a failed fetch leaves the response cache unchanged, the
\* next identical request after it calls the Snowflake client, and streaming
\* requests leave the cache alone.
C40_NextRequestFetchesAgain ==
    [][/\ FetchFailed => UNCHANGED response_cache
       /\ \A table \in RegistryTables : NextAfterFailure(table, {"alone", "shared"})
       /\ StreamStep => UNCHANGED response_cache]_vars

\* C40: a failed fetch leaves the response cache unchanged, and every cached
\* response is the result of an execute_query call that returned; the next
\* identical request after the failure calls the Snowflake client again when
\* no identical fetch was under way or had stored its response while the
\* failed one ran; a streaming request, at its call and when its body is
\* produced, leaves the cache as it is.
C40_FailureIsNotCached ==
    /\ [](\A i \in 1..Len(response_cache) : response_cache[i].value.version \in Versions)
    /\ [][/\ FetchFailed => UNCHANGED response_cache
          /\ \A table \in RegistryTables : NextAfterFailure(table, {"alone"})
          /\ StreamStep => UNCHANGED response_cache]_vars

\* after a fetch of COMPANY_INDEX failed alone, with a response for the other
\* table cached and a stream made, the next request for it is under way
C40_Witness ==
    /\ view_call = [event |-> "call", view_id |-> <<"companies">>, stream |-> FALSE,
                    status |-> 0, table |-> "COMPANY_INDEX", x_cache |-> NoVal]
    /\ fetches = <<"COMPANY_INDEX">>
    /\ after_failure["COMPANY_INDEX"] = "next"
    /\ Len(response_cache) = 1
    /\ response_cache[1].value.table = "AIRCRAFT_CARRIER_INDEX"
    /\ Len(streams) = 1

====
